---- MODULE Spec2Model ----
(***************************************************************************)
(* Model of teensy_oled.c (final iteration): a bit-banged I2C master on    *)
(* port D driving an SSD1306 OLED, the display command protocol on top of  *)
(* it, and the control loop of main().                                     *)
(*                                                                         *)
(* Two granularities share the same definitions of the bus primitives:     *)
(*  - the driver level (Spec, SpecMain, SpecPower): one step per call of   *)
(*    i2c_start / i2c_send_byte / i2c_stop made by the oled_* functions;   *)
(*  - the pin level (SpecBit): one step per pin instruction of one         *)
(*    i2c_send_byte call, with a peer that may stretch the clock.          *)
(*                                                                         *)
(* char is an unsigned 8-bit type: the project is built with the pjrc      *)
(* "blinky" Makefile (src/README.md), and the mask loop of i2c_send_byte   *)
(* terminates only for an unsigned char.                                   *)
(***************************************************************************)
EXTENDS Integers, Sequences, FiniteSets, TLC

VARIABLES
    ddr,        \* DDRD bits of the two bus pins: 1 = output = line pulled low
    stack,      \* call stack, innermost frame first; a frame is a record
    ret,        \* value returned by the function that returned last
    peer,       \* the peripheral: [mode, inTxn], and [.., gram] where tracked
    build,      \* build-time flags: [alt, flipped, contrast]
    sent,       \* bytes put on the bus since the last i2c_start (observer)
    shape,      \* start/sendByte/stop bracket automaton (observer)
    starts,     \* i2c_start calls made by the current top-level call (observer)
    nacked,     \* a byte of the current transaction was not acknowledged
    afterNack,  \* a byte was sent after a nack in the current transaction
    initOk,     \* some oled_init() call has returned success (observer)
    bit         \* pin-level machine: [byte, ip, peerScl, peerSda, highs, ...]

vars == <<ddr, stack, ret, peer, build, sent, shape, starts, nacked,
          afterNack, initOk, bit>>

----------------------------------------------------------------------------
(* Bounds of the model *)

\* widest window / image the caller of Spec passes to a renderer or blit
MaxW == 3
\* most loop iterations of main() that SpecMain follows
MaxFrames == 2

\* most successive calls of a scrolling renderer that SpecScroll follows
MaxCalls == 8
\* the wide window of SpecScroll (the narrow one is two columns)
MaxScrollW == 20
MaxBungeeW == 24

----------------------------------------------------------------------------
(* 8-bit arithmetic *)

Pow2Table == <<1, 2, 4, 8, 16, 32, 64, 128, 256, 512, 1024, 2048, 4096, 8192,
               16384, 32768, 65536>>
Pow2(n) == Pow2Table[n + 1]

Char(v) == v % 256

BitOf(a, k) == (a \div Pow2(k)) % 2

\* a & b and a | b, on 16-bit ints
BitAnd(a, b) ==
    LET B(k) == BitOf(a, k) * BitOf(b, k) * Pow2(k)
    IN B(0) + B(1) + B(2) + B(3) + B(4) + B(5) + B(6) + B(7)
       + B(8) + B(9) + B(10) + B(11) + B(12) + B(13) + B(14) + B(15)

BitOr(a, b) == a + b - BitAnd(a, b)
Shr(a, n) == a \div Pow2(n)

----------------------------------------------------------------------------
(* Low-level I2C: pins and pin instructions *)

SCL == 0
SDA == 1

DdrStates == [{SCL, SDA} -> {0, 1}]

\* i2c_init: both pins inputs, i.e. both lines released
i2c_init == [p \in {SCL, SDA} |-> 0]

i2c_release(pin) == [op |-> "release", pin |-> pin]
i2c_pulldown(pin) == [op |-> "pulldown", pin |-> pin]
i2c_read(pin) == [op |-> "read", pin |-> pin]
\* while (i2c_read(SCL) == 0) {}
i2c_wait_high(pin) == [op |-> "wait", pin |-> pin]
delay_us == [op |-> "delay", pin |-> SCL]

\* effect of one pin instruction on DDRD
ExecPin(d, ins) ==
    CASE ins.op = "release"  -> [d EXCEPT ![ins.pin] = 0]
      [] ins.op = "pulldown" -> [d EXCEPT ![ins.pin] = 1]
      [] OTHER               -> d

\* a faulty clock cycle that does not wait for the line to rise
i2c_clock_nowait == <<i2c_release(SCL), i2c_pulldown(SCL)>>

i2c_clock == <<i2c_release(SCL), i2c_wait_high(SCL), i2c_pulldown(SCL)>>

\* a faulty i2c_send_bit that sets the data line in the clock-high phase
i2c_send_bit_late(i) ==
    <<i2c_release(SCL), i2c_wait_high(SCL),
      IF i # 0 THEN i2c_release(SDA) ELSE i2c_pulldown(SDA),
      i2c_pulldown(SCL)>>

\* a faulty i2c_send_bit with the polarity of the data line inverted
i2c_send_bit_inverted(i) ==
    <<IF i # 0 THEN i2c_pulldown(SDA) ELSE i2c_release(SDA)>> \o i2c_clock

i2c_send_bit(i) ==
    <<IF i # 0 THEN i2c_release(SDA) ELSE i2c_pulldown(SDA)>> \o i2c_clock

\* a faulty i2c_send_byte that leaves the data line as the last bit set it
i2c_send_byte_norelease(c) ==
    i2c_send_bit(BitAnd(c, 128)) \o i2c_send_bit(BitAnd(c, 64))
    \o i2c_send_bit(BitAnd(c, 32)) \o i2c_send_bit(BitAnd(c, 16))
    \o i2c_send_bit(BitAnd(c, 8)) \o i2c_send_bit(BitAnd(c, 4))
    \o i2c_send_bit(BitAnd(c, 2)) \o i2c_send_bit(BitAnd(c, 1))
    \o <<i2c_read(SDA)>> \o i2c_clock

\* for (char mask = 0x80; mask != 0; mask >>= 1) i2c_send_bit(c & mask);
\* then the acknowledge: release SDA, sample it, one more clock cycle
i2c_send_byte(c) ==
    i2c_send_bit(BitAnd(c, 128)) \o i2c_send_bit(BitAnd(c, 64))
    \o i2c_send_bit(BitAnd(c, 32)) \o i2c_send_bit(BitAnd(c, 16))
    \o i2c_send_bit(BitAnd(c, 8)) \o i2c_send_bit(BitAnd(c, 4))
    \o i2c_send_bit(BitAnd(c, 2)) \o i2c_send_bit(BitAnd(c, 1))
    \o <<i2c_release(SDA), i2c_read(SDA)>> \o i2c_clock

i2c_start(addr) ==
    <<i2c_pulldown(SDA), delay_us, i2c_pulldown(SCL)>> \o i2c_send_byte(addr)

i2c_stop ==
    <<i2c_pulldown(SDA), delay_us, i2c_release(SCL), delay_us,
      i2c_release(SDA), delay_us>>

\* DDRD before instruction k of ops, entered with DDRD = d: each pin is as
\* the last release or pulldown before k left it
DdrBefore(ops, d, k) ==
    [pin \in {SCL, SDA} |->
        LET W == {j \in 1 .. (k - 1) :
                     ops[j].pin = pin /\ ops[j].op \in {"release", "pulldown"}}
        IN IF W = {} THEN d[pin]
           ELSE LET m == CHOOSE j \in W : \A i \in W : i <= j
                IN IF ops[m].op = "pulldown" THEN 1 ELSE 0]

\* the instructions of ops that put a start or stop condition on the wire:
\* the master changes SDA while it has SCL released (at the driver level
\* nobody else is assumed to hold the clock)
CondsAt(ops, d) ==
    {k \in 1 .. Len(ops) :
        LET b == DdrBefore(ops, d, k)
        IN ops[k].pin = SDA /\ b[SCL] = 0 /\ ExecPin(b, ops[k])[SDA] # b[SDA]}

\* the result of running the pin instructions ops from DDRD = d: the DDRD
\* bits, the start/stop conditions (last one in "last"), and the master's
\* own drive of SDA when it sampled the acknowledge
RunPins(ops, d) ==
    LET C == CondsAt(ops, d)
        Kind(k) == IF ops[k].op = "pulldown" THEN "START" ELSE "STOP"
        R == {k \in 1 .. Len(ops) : ops[k].op = "read"}
    IN [ddr   |-> DdrBefore(ops, d, Len(ops) + 1),
        conds |-> {Kind(k) : k \in C},
        last  |-> IF C = {} THEN "NONE"
                  ELSE Kind(CHOOSE k \in C : \A j \in C : j <= k),
        drive |-> IF R = {} THEN 0
                  ELSE DdrBefore(ops, d, CHOOSE k \in R : TRUE)[SDA]]

\* the primitives, tabulated over their arguments and the DDRD at the call
\* (f @@ <<>> is f, held as an explicit table)
send_byte_ops == [c \in 0 .. 255 |-> i2c_send_byte(c)] @@ <<>>
send_byte_run ==
    [c \in 0 .. 255 |->
        [d \in DdrStates |-> RunPins(i2c_send_byte(c), d)] @@ <<>>] @@ <<>>
start_run ==
    [c \in 0 .. 255 |->
        [d \in DdrStates |-> RunPins(i2c_start(c), d)] @@ <<>>] @@ <<>>
stop_run == [d \in DdrStates |-> RunPins(i2c_stop, d)] @@ <<>>

----------------------------------------------------------------------------
(* The peripheral, as the environment of the driver *)

\* mode "any": acknowledges or not, arbitrarily; "off": not powered, never
\* acknowledges; "on": acknowledges every byte of a transaction that began
\* with a start condition
PeerSees(p, r) ==
    IF p.mode = "off" \/ r.last = "NONE" THEN p
    ELSE [p EXCEPT !.inTxn = (r.last = "START")]

\* whether the peer pulls SDA low in the acknowledge window
PeerPulls(p) ==
    CASE p.mode = "any" -> BOOLEAN
      [] p.mode = "off" -> {FALSE}
      [] OTHER          -> {p.inTxn}

----------------------------------------------------------------------------
(* The graphic RAM addressing of the SSD1306, tracked in peer.gram by the   *)
(* specifications that follow the display contents                          *)

\* state after reset: page addressing mode, the full column and page ranges;
\* ctl is the control byte of the current transaction, pend the command
\* bytes waiting for their arguments, cells the RAM writes made so far,
\* each as (page * 128 + column) * 256 + value (kept while rec is set)
DispReset ==
    [ctl |-> "none", pend |-> <<>>, amode |-> 2, colS |-> 0, colE |-> 127,
     pgS |-> 0, pgE |-> 7, col |-> 0, page |-> 0, cells |-> <<>>,
     rec |-> TRUE]

\* number of argument bytes that follow command byte c
DispArgs(c) ==
    CASE c \in {33, 34} -> 2
      [] c \in {32, 129, 141, 168, 211, 213, 217, 218, 219} -> 1
      [] OTHER -> 0

\* a complete command q = <<command, arguments>>; setting the column range
\* makes the display start loading at start column & 0xf0 (the quirk noted
\* in oled_blit)
DispCommand(d, q) ==
    LET c == q[1]
    IN CASE c = 32 -> [d EXCEPT !.amode = q[2] % 4]
         [] c = 33 -> [d EXCEPT !.colS = q[2] % 128, !.colE = q[3] % 128,
                                !.col = (q[2] % 128) - (q[2] % 16)]
         [] c = 34 -> [d EXCEPT !.pgS = q[2] % 8, !.pgE = q[3] % 8,
                                !.page = q[2] % 8]
         [] c \in 176 .. 183 -> [d EXCEPT !.page = c - 176]
         [] c \in 0 .. 15 -> [d EXCEPT !.col = (@ \div 16) * 16 + c]
         [] c \in 16 .. 31 -> [d EXCEPT !.col = ((c - 16) * 16 + (@ % 16)) % 128]
         [] OTHER -> d

\* one byte of display data: written at the address pointer, which then
\* moves on: along the page (page mode), along the page and then to the next
\* page of the window (horizontal mode), down the column (vertical mode)
DispData(d, v) ==
    LET w == IF d.rec
             THEN [d EXCEPT
                     !.cells = Append(@, (d.page * 128 + d.col) * 256 + v)]
             ELSE d
        lastCol == d.col = d.colE \/ d.col = 127
        lastPage == d.page = d.pgE \/ d.page = 7
    IN CASE d.amode = 0 ->
              IF lastCol
              THEN [w EXCEPT !.col = d.colS,
                             !.page = IF lastPage THEN d.pgS ELSE @ + 1]
              ELSE [w EXCEPT !.col = @ + 1]
         [] d.amode = 1 ->
              IF lastPage
              THEN [w EXCEPT !.page = d.pgS,
                             !.col = IF lastCol THEN d.colS ELSE @ + 1]
              ELSE [w EXCEPT !.page = @ + 1]
         [] OTHER -> [w EXCEPT !.col = IF d.col = 127 THEN 0 ELSE @ + 1]

\* a byte received after the address byte
DispByte(d, c) ==
    CASE d.ctl = "none" ->
           [d EXCEPT !.ctl = IF c = 64 THEN "data"
                             ELSE IF c = 0 THEN "cmd" ELSE "other"]
      [] d.ctl = "cmd" ->
           LET q == Append(d.pend, c)
           IN IF Len(q) = 1 + DispArgs(q[1])
              THEN [DispCommand(d, q) EXCEPT !.pend = <<>>]
              ELSE [d EXCEPT !.pend = q]
      [] d.ctl = "data" -> DispData(d, c)
      [] OTHER -> d

\* the peer after a byte that it received inside a transaction: the address
\* byte (first) opens the transaction, any other byte is for the display
PeerByte(p, c, first) ==
    IF "gram" \notin DOMAIN p \/ ~p.inTxn THEN p
    ELSE [p EXCEPT !.gram = IF first THEN [@ EXCEPT !.ctl = "none", !.pend = <<>>]
                            ELSE DispByte(@, c)]

----------------------------------------------------------------------------
(* Observer of the order of bus operations: start (sendByte)* stop *)

ShapeStep(s, e) ==
    CASE s = "idle" /\ e = "start" -> "open"
      [] s = "open" /\ e = "byte"  -> "open"
      [] s = "open" /\ e = "stop"  -> "idle"
      [] OTHER                     -> "bad"

----------------------------------------------------------------------------
(* The bus primitives as driver-level steps *)

\* int acked = !i2c_read(SDA): the line is low when the master or the peer
\* pulls it
AckRead(r, pull) == IF r.drive = 1 \/ pull THEN 1 ELSE 0

\* acked = i2c_start(addr)
Bus_start(addr, acked) ==
    LET r  == start_run[addr][ddr]
        p2 == PeerSees(peer, r)
    IN /\ \E pull \in PeerPulls(p2) : acked = AckRead(r, pull)
       /\ ddr' = r.ddr
       /\ peer' = PeerByte(p2, addr, TRUE)
       /\ sent' = <<addr>>
       /\ shape' = ShapeStep(shape, "start")
       /\ starts' = starts + 1
       /\ nacked' = (acked = 0)
       /\ afterNack' = FALSE

\* acked = i2c_send_byte(c)
Bus_send_byte(c, acked) ==
    LET r  == send_byte_run[c][ddr]
        p2 == PeerSees(peer, r)
    IN /\ \E pull \in PeerPulls(p2) : acked = AckRead(r, pull)
       /\ ddr' = r.ddr
       /\ peer' = PeerByte(p2, c, FALSE)
       /\ sent' = Append(sent, c)
       /\ shape' = ShapeStep(shape, "byte")
       /\ nacked' = (nacked \/ acked = 0)
       /\ afterNack' = (afterNack \/ nacked)
       /\ UNCHANGED starts

\* i2c_stop()
Bus_stop ==
    LET r == stop_run[ddr]
    IN /\ ddr' = r.ddr
       /\ peer' = PeerSees(peer, r)
       /\ shape' = ShapeStep(shape, "stop")
       /\ UNCHANGED <<sent, starts, nacked, afterNack>>

Bus_unchanged == UNCHANGED <<ddr, peer, sent, shape, starts, nacked, afterNack>>

----------------------------------------------------------------------------
(* Call stack *)

Top == Head(stack)
At(fn, pc) == Top.fn = fn /\ Top.pc = pc

\* continue in the current function at pc, with frame f
Goto(f, pc) == stack' = <<[f EXCEPT !.pc = pc]>> \o Tail(stack)
\* call: push frame g, the caller resumes at pc
Call(g, pc) == stack' = <<g, [Top EXCEPT !.pc = pc]>> \o Tail(stack)
\* return v to the caller
Return(v) == /\ stack' = Tail(stack)
             /\ ret' = v
\* return from a void function
ReturnVoid == /\ stack' = Tail(stack)
              /\ UNCHANGED ret

----------------------------------------------------------------------------
(* OLED: constants and command tables *)

OLED_SUB_ADDR == IF build.alt THEN 2 ELSE 0
HFLIP == IF build.flipped THEN 1 ELSE 0
VFLIP == IF build.flipped THEN 8 ELSE 0

OLED_ADDR == BitOr(120, OLED_SUB_ADDR)
OLED_CMD == 0
OLED_DATA == 64

OLED_SET_LOWER_COLUMN == 0
OLED_SET_UPPER_COLUMN == 16
OLED_SET_ADDR_MODE == 32
OLED_SET_COL_ADDR == 33
OLED_SET_PAGE_ADDR == 34
OLED_SET_DISPLAY_START_LINE == 64
OLED_SET_CONTRAST == 129
OLED_SET_CHARGE_PUMP == 141
OLED_SET_SEGMENT_REMAP == 160
OLED_SET_ENTIRE_DISPLAY == 164
OLED_SET_INVERTED == 166
OLED_SET_MUX_RATIO == 168
OLED_SET_DISPLAY_ON_OFF == 174
OLED_SET_PAGE_START_ADDR == 176
OLED_SET_COM_SCAN_DIR == 192
OLED_SET_DISPLAY_OFFSET == 211
OLED_SET_OSC_FREQ == 213
OLED_SET_COM_HW_CONF == 218

\* a faulty table: the multiplex ratio of the 128x64 panel
oled_init_instrs_64 ==
    <<OLED_CMD,
      OLED_SET_MUX_RATIO, 63,
      OLED_SET_DISPLAY_OFFSET, 0,
      OLED_SET_DISPLAY_START_LINE + 0,
      BitOr(OLED_SET_SEGMENT_REMAP, HFLIP),
      BitOr(OLED_SET_COM_SCAN_DIR, VFLIP),
      OLED_SET_COM_HW_CONF, 2,
      OLED_SET_CONTRAST, 127,
      BitOr(OLED_SET_ENTIRE_DISPLAY, 0),
      BitOr(OLED_SET_INVERTED, 0),
      OLED_SET_OSC_FREQ, 128,
      OLED_SET_CHARGE_PUMP, 20,
      BitOr(OLED_SET_DISPLAY_ON_OFF, 1)>>

oled_init_instrs ==
    <<OLED_CMD,
      OLED_SET_MUX_RATIO, 31,
      OLED_SET_DISPLAY_OFFSET, 0,
      OLED_SET_DISPLAY_START_LINE + 0,
      BitOr(OLED_SET_SEGMENT_REMAP, HFLIP),
      BitOr(OLED_SET_COM_SCAN_DIR, VFLIP),
      OLED_SET_COM_HW_CONF, 2,
      OLED_SET_CONTRAST, 127,
      BitOr(OLED_SET_ENTIRE_DISPLAY, 0),
      BitOr(OLED_SET_INVERTED, 0),
      OLED_SET_OSC_FREQ, 128,
      OLED_SET_CHARGE_PUMP, 20,
      BitOr(OLED_SET_DISPLAY_ON_OFF, 1)>>

oled_init_instrs_len == Len(oled_init_instrs)

\* a faulty window that ends one column short
oled_full_screen_instrs_short ==
    <<OLED_CMD,
      OLED_SET_ADDR_MODE, 0,
      OLED_SET_COL_ADDR, 0, 126,
      OLED_SET_PAGE_ADDR, 0, 7>>

oled_full_screen_instrs ==
    <<OLED_CMD,
      OLED_SET_ADDR_MODE, 0,
      OLED_SET_COL_ADDR, 0, 127,
      OLED_SET_PAGE_ADDR, 0, 7>>

oled_full_screen_instrs_len == Len(oled_full_screen_instrs)

----------------------------------------------------------------------------
(* oled_sequence(data, count): send a sequence of bytes over i2c *)

oled_sequence_frame(data, count) ==
    [fn |-> "oled_sequence", pc |-> "start", data |-> data, count |-> count,
     i |-> 0]

\* if (!i2c_start(OLED_ADDR)) return 0;
oled_sequence_start ==
    /\ At("oled_sequence", "start")
    /\ \E acked \in {0, 1} :
         /\ Bus_start(OLED_ADDR, acked)
         /\ IF acked = 0
            THEN Return(0)
            ELSE /\ Goto([Top EXCEPT !.i = 0], "loop")
                 /\ UNCHANGED ret
    /\ UNCHANGED <<build, initOk, bit>>

\* a faulty loop that does not break on a missing acknowledge
oled_sequence_send_nobreak ==
    /\ At("oled_sequence", "loop")
    /\ Top.i < Top.count
    /\ \E acked \in {0, 1} :
         /\ Bus_send_byte(Top.data[Top.i + 1], acked)
         /\ Goto([Top EXCEPT !.i = @ + 1], "loop")
    /\ UNCHANGED <<ret, build, initOk, bit>>

\* for (i = 0; i < count; i++) if (!i2c_send_byte(data[i])) break;
oled_sequence_send ==
    /\ At("oled_sequence", "loop")
    /\ Top.i < Top.count
    /\ \E acked \in {0, 1} :
         /\ Bus_send_byte(Top.data[Top.i + 1], acked)
         /\ IF acked = 0
            THEN Goto(Top, "stop")
            ELSE Goto([Top EXCEPT !.i = @ + 1], "loop")
    /\ UNCHANGED <<ret, build, initOk, bit>>

\* i2c_stop(); return i == count;
oled_sequence_stop ==
    /\ \/ At("oled_sequence", "loop") /\ Top.i >= Top.count
       \/ At("oled_sequence", "stop")
    /\ Bus_stop
    /\ Return(IF Top.i = Top.count THEN 1 ELSE 0)
    /\ UNCHANGED <<build, initOk, bit>>

----------------------------------------------------------------------------
(* oled_init() *)

oled_init_frame == [fn |-> "oled_init", pc |-> "call"]

oled_init_call ==
    /\ At("oled_init", "call")
    /\ Call(oled_sequence_frame(oled_init_instrs, oled_init_instrs_len),
            "return")
    /\ Bus_unchanged
    /\ UNCHANGED <<ret, build, initOk, bit>>

oled_init_return ==
    /\ At("oled_init", "return")
    /\ Return(ret)
    /\ initOk' = (initOk \/ ret # 0)
    /\ Bus_unchanged
    /\ UNCHANGED <<build, bit>>

----------------------------------------------------------------------------
(* oled_clear() *)

oled_clear_frame == [fn |-> "oled_clear", pc |-> "call", i |-> 0]

\* oled_sequence(oled_full_screen_instrs, oled_full_screen_instrs_len);
oled_clear_call ==
    /\ At("oled_clear", "call")
    /\ Call(oled_sequence_frame(oled_full_screen_instrs,
                                oled_full_screen_instrs_len), "start")
    /\ Bus_unchanged
    /\ UNCHANGED <<ret, build, initOk, bit>>

\* i2c_start(OLED_ADDR);
oled_clear_start ==
    /\ At("oled_clear", "start")
    /\ \E acked \in {0, 1} : Bus_start(OLED_ADDR, acked)
    /\ Goto(Top, "data")
    /\ UNCHANGED <<ret, build, initOk, bit>>

\* i2c_send_byte(OLED_DATA);
oled_clear_data ==
    /\ At("oled_clear", "data")
    /\ \E acked \in {0, 1} : Bus_send_byte(OLED_DATA, acked)
    /\ Goto([Top EXCEPT !.i = 0], "loop")
    /\ UNCHANGED <<ret, build, initOk, bit>>

\* for (int i = 0; i < 128 * 4; i++) i2c_send_byte(0x00);
oled_clear_zero ==
    /\ At("oled_clear", "loop")
    /\ Top.i < 128 * 4
    /\ \E acked \in {0, 1} : Bus_send_byte(0, acked)
    /\ Goto([Top EXCEPT !.i = @ + 1], "loop")
    /\ UNCHANGED <<ret, build, initOk, bit>>

\* i2c_stop();
oled_clear_stop ==
    /\ At("oled_clear", "loop")
    /\ Top.i >= 128 * 4
    /\ Bus_stop
    /\ ReturnVoid
    /\ UNCHANGED <<build, initOk, bit>>

----------------------------------------------------------------------------
(* oled_set_page_mode(page, x) *)

oled_set_page_mode_frame(page, x) ==
    [fn |-> "oled_set_page_mode", pc |-> "start", page |-> page, x |-> x,
     k |-> 0]

\* a faulty order: the lower column nibble before the upper one
oled_set_page_mode_bytes_swapped(page, x) ==
    <<OLED_CMD,
      OLED_SET_ADDR_MODE, 2,
      BitOr(OLED_SET_PAGE_START_ADDR, page),
      BitOr(OLED_SET_LOWER_COLUMN, BitAnd(x, 15)),
      BitOr(OLED_SET_UPPER_COLUMN, Shr(x, 4))>>

\* a faulty sequence that leaves the addressing mode as it is
oled_set_page_mode_bytes_nomode(page, x) ==
    <<OLED_CMD,
      BitOr(OLED_SET_PAGE_START_ADDR, page),
      BitOr(OLED_SET_UPPER_COLUMN, Shr(x, 4)),
      BitOr(OLED_SET_LOWER_COLUMN, BitAnd(x, 15))>>

\* the bytes of the straight-line sends, in program order
oled_set_page_mode_bytes(page, x) ==
    <<OLED_CMD,
      OLED_SET_ADDR_MODE, 2,
      BitOr(OLED_SET_PAGE_START_ADDR, page),
      BitOr(OLED_SET_UPPER_COLUMN, Shr(x, 4)),
      BitOr(OLED_SET_LOWER_COLUMN, BitAnd(x, 15))>>

oled_set_page_mode_start ==
    /\ At("oled_set_page_mode", "start")
    /\ \E acked \in {0, 1} : Bus_start(OLED_ADDR, acked)
    /\ Goto([Top EXCEPT !.k = 0], "send")
    /\ UNCHANGED <<ret, build, initOk, bit>>

oled_set_page_mode_send ==
    /\ At("oled_set_page_mode", "send")
    /\ Top.k < Len(oled_set_page_mode_bytes(Top.page, Top.x))
    /\ \E acked \in {0, 1} :
         Bus_send_byte(oled_set_page_mode_bytes(Top.page, Top.x)[Top.k + 1],
                       acked)
    /\ Goto([Top EXCEPT !.k = @ + 1], "send")
    /\ UNCHANGED <<ret, build, initOk, bit>>

oled_set_page_mode_stop ==
    /\ At("oled_set_page_mode", "send")
    /\ Top.k >= Len(oled_set_page_mode_bytes(Top.page, Top.x))
    /\ Bus_stop
    /\ ReturnVoid
    /\ UNCHANGED <<build, initOk, bit>>

----------------------------------------------------------------------------
(* Compiled-in tables (gen/charset.h, gen/head.h, gen/heels.h, cos_table.h *)
(* are generated files; their contents are opaque data to the driver)      *)

\* byte k of the font table: 96 glyphs of 8 column bytes
charset(k) == (k * 7 + 3) % 256
\* byte k of an image
image_byte(image, k) == IF image = "head" THEN (k * 5 + 1) % 256
                        ELSE (k * 11 + 2) % 256
\* 64-entry table of shift amounts in 0..8
cos_table_64_4 ==
    <<8, 8, 8, 8, 8, 8, 7, 7, 7, 7, 6, 6, 6, 5, 5, 4,
      4, 4, 3, 3, 2, 2, 2, 1, 1, 1, 1, 0, 0, 0, 0, 0,
      0, 0, 0, 0, 0, 0, 1, 1, 1, 1, 2, 2, 2, 3, 3, 4,
      4, 4, 5, 5, 6, 6, 6, 7, 7, 7, 7, 8, 8, 8, 8, 8>>

\* str[k] of a NUL-terminated string held as the sequence of its characters
StrAt(str, k) == IF k < Len(str) THEN str[k + 1] ELSE 0

\* faulty lookups: the table base ' ' not subtracted; no lower bound
glyph_idx_unbased(c) == IF 32 <= c /\ c < 128 THEN c ELSE 3
glyph_idx_nolower(c) == IF c < 128 THEN c - 32 ELSE 3

\* char idx = (32 <= c && c < 128) ? c - 32 : 3;
glyph_idx(c) == IF 32 <= c /\ c < 128 THEN c - 32 ELSE 3

----------------------------------------------------------------------------
(* oled_blit(x, y, w, h, image) *)

oled_blit_frame(x, y, w, h, image) ==
    [fn |-> "oled_blit", pc |-> "start", x |-> x, y |-> y, w |-> w, h |-> h,
     image |-> image, image_ptr |-> 0, page |-> 0, i |-> 0, k |-> 0]

oled_blit_mode_bytes == <<OLED_CMD, OLED_SET_ADDR_MODE, 2>>

oled_blit_start ==
    /\ At("oled_blit", "start")
    /\ \E acked \in {0, 1} : Bus_start(OLED_ADDR, acked)
    /\ Goto([Top EXCEPT !.k = 0], "mode")
    /\ UNCHANGED <<ret, build, initOk, bit>>

oled_blit_mode ==
    /\ At("oled_blit", "mode")
    /\ Top.k < Len(oled_blit_mode_bytes)
    /\ \E acked \in {0, 1} :
         Bus_send_byte(oled_blit_mode_bytes[Top.k + 1], acked)
    /\ Goto([Top EXCEPT !.k = @ + 1], "mode")
    /\ UNCHANGED <<ret, build, initOk, bit>>

\* i2c_stop(); image_ptr = image; page = y
oled_blit_mode_stop ==
    /\ At("oled_blit", "mode")
    /\ Top.k >= Len(oled_blit_mode_bytes)
    /\ Bus_stop
    /\ Goto([Top EXCEPT !.image_ptr = 0, !.page = Top.y], "page")
    /\ UNCHANGED <<ret, build, initOk, bit>>

\* page < y + h: oled_set_page_mode(page, x);
oled_blit_page ==
    /\ At("oled_blit", "page")
    /\ Top.page < Top.y + Top.h
    /\ Call(oled_set_page_mode_frame(Char(Top.page), Top.x), "dstart")
    /\ Bus_unchanged
    /\ UNCHANGED <<ret, build, initOk, bit>>

oled_blit_return ==
    /\ At("oled_blit", "page")
    /\ Top.page >= Top.y + Top.h
    /\ ReturnVoid
    /\ Bus_unchanged
    /\ UNCHANGED <<build, initOk, bit>>

oled_blit_dstart ==
    /\ At("oled_blit", "dstart")
    /\ \E acked \in {0, 1} : Bus_start(OLED_ADDR, acked)
    /\ Goto(Top, "data")
    /\ UNCHANGED <<ret, build, initOk, bit>>

oled_blit_data ==
    /\ At("oled_blit", "data")
    /\ \E acked \in {0, 1} : Bus_send_byte(OLED_DATA, acked)
    /\ Goto([Top EXCEPT !.i = 0], "row")
    /\ UNCHANGED <<ret, build, initOk, bit>>

\* for (int i = 0; i < w; i++) i2c_send_byte(*image_ptr++);
oled_blit_row ==
    /\ At("oled_blit", "row")
    /\ Top.i < Top.w
    /\ \E acked \in {0, 1} :
         Bus_send_byte(image_byte(Top.image, Top.image_ptr), acked)
    /\ Goto([Top EXCEPT !.i = @ + 1, !.image_ptr = @ + 1], "row")
    /\ UNCHANGED <<ret, build, initOk, bit>>

\* i2c_stop(); page++
oled_blit_row_stop ==
    /\ At("oled_blit", "row")
    /\ Top.i >= Top.w
    /\ Bus_stop
    /\ Goto([Top EXCEPT !.page = @ + 1], "page")
    /\ UNCHANGED <<ret, build, initOk, bit>>

----------------------------------------------------------------------------
(* oled_write(x, y, str) *)

oled_write_frame(x, y, str) ==
    [fn |-> "oled_write", pc |-> "call", x |-> x, y |-> y, str |-> str,
     sp |-> 0, ptr |-> 0, i |-> 0]

oled_write_call ==
    /\ At("oled_write", "call")
    /\ Call(oled_set_page_mode_frame(Top.y, Top.x), "start")
    /\ Bus_unchanged
    /\ UNCHANGED <<ret, build, initOk, bit>>

oled_write_start ==
    /\ At("oled_write", "start")
    /\ \E acked \in {0, 1} : Bus_start(OLED_ADDR, acked)
    /\ Goto(Top, "data")
    /\ UNCHANGED <<ret, build, initOk, bit>>

oled_write_data ==
    /\ At("oled_write", "data")
    /\ \E acked \in {0, 1} : Bus_send_byte(OLED_DATA, acked)
    /\ Goto(Top, "char")
    /\ UNCHANGED <<ret, build, initOk, bit>>

\* *str != '\0': c = *str; idx = ...; ptr = charset + idx * 8; i = 8
oled_write_char ==
    /\ At("oled_write", "char")
    /\ StrAt(Top.str, Top.sp) # 0
    /\ Goto([Top EXCEPT !.ptr = glyph_idx(StrAt(Top.str, Top.sp)) * 8,
                        !.i = 8], "col")
    /\ Bus_unchanged
    /\ UNCHANGED <<ret, build, initOk, bit>>

\* for (int i = 8; i > 0; i--) i2c_send_byte(*ptr++);  then str++
oled_write_col ==
    /\ At("oled_write", "col")
    /\ \E acked \in {0, 1} : Bus_send_byte(charset(Top.ptr), acked)
    /\ IF Top.i - 1 > 0
       THEN Goto([Top EXCEPT !.ptr = @ + 1, !.i = @ - 1], "col")
       ELSE Goto([Top EXCEPT !.ptr = @ + 1, !.i = @ - 1, !.sp = @ + 1],
                 "char")
    /\ UNCHANGED <<ret, build, initOk, bit>>

oled_write_stop ==
    /\ At("oled_write", "char")
    /\ StrAt(Top.str, Top.sp) = 0
    /\ Bus_stop
    /\ ReturnVoid
    /\ UNCHANGED <<build, initOk, bit>>

----------------------------------------------------------------------------
(* Caller-owned animation state passed by reference (int *offset,          *)
(* char *phase): ref names the variable in the caller's frame              *)

Deref(ref) == stack[2][ref]
\* return from a void function after storing v through the pointer ref
ReturnStore(ref, v) ==
    /\ stack' = <<[stack[2] EXCEPT ![ref] = v]>> \o Tail(Tail(stack))
    /\ UNCHANGED ret

\* a faulty wrap that restarts the message at its first column
advance_offset_zero(str, offset, step) ==
    IF StrAt(str, Shr(offset + step, 3)) = 0
    THEN 0
    ELSE offset + step

\* *offset += step; if (str[*offset >> 3] == '\0') *offset &= 7;
advance_offset(str, offset, step) ==
    IF StrAt(str, Shr(offset + step, 3)) = 0
    THEN BitAnd(offset + step, 7)
    ELSE offset + step

\* a faulty step to the next character that runs on past the terminator
next_char_nowrap(str, sp) == sp + 1

\* sub_offset = 0; if (*++str_ptr == '\0') str_ptr = str;
next_char(str, sp) == IF StrAt(str, sp + 1) = 0 THEN 0 ELSE sp + 1

----------------------------------------------------------------------------
(* oled_marquee(x, y, w, str, offset, speed) *)

oled_marquee_frame(x, y, w, str, offset, speed) ==
    [fn |-> "oled_marquee", pc |-> "call", x |-> x, y |-> y, w |-> w,
     str |-> str, offset |-> offset, speed |-> speed, sub_offset |-> 0,
     sp |-> 0, ptr |-> 0, i |-> 0]

oled_marquee_call ==
    /\ At("oled_marquee", "call")
    /\ Call(oled_set_page_mode_frame(Top.y, Top.x), "start")
    /\ Bus_unchanged
    /\ UNCHANGED <<ret, build, initOk, bit>>

\* sub_offset = *offset & 0x07; i2c_start(OLED_ADDR);
oled_marquee_start ==
    /\ At("oled_marquee", "start")
    /\ \E acked \in {0, 1} : Bus_start(OLED_ADDR, acked)
    /\ Goto([Top EXCEPT !.sub_offset = BitAnd(Deref(Top.offset), 7)], "data")
    /\ UNCHANGED <<ret, build, initOk, bit>>

\* i2c_send_byte(OLED_DATA); str_ptr = str + (*offset >> 3);
oled_marquee_data ==
    /\ At("oled_marquee", "data")
    /\ \E acked \in {0, 1} : Bus_send_byte(OLED_DATA, acked)
    /\ Goto([Top EXCEPT !.sp = Shr(Deref(Top.offset), 3)], "outer")
    /\ UNCHANGED <<ret, build, initOk, bit>>

\* w != 0: c = *str_ptr; idx = ...; ptr = charset + idx * 8 + sub_offset;
\* i = 8 - sub_offset
oled_marquee_char ==
    /\ At("oled_marquee", "outer")
    /\ Top.w # 0
    /\ Goto([Top EXCEPT
               !.ptr = glyph_idx(StrAt(Top.str, Top.sp)) * 8 + Top.sub_offset,
               !.i = 8 - Top.sub_offset], "inner")
    /\ Bus_unchanged
    /\ UNCHANGED <<ret, build, initOk, bit>>

\* i2c_send_byte(*ptr++); if (--w == 0) break;  and, when the for loop
\* ends, sub_offset = 0 and the step to the next character
oled_marquee_col ==
    /\ At("oled_marquee", "inner")
    /\ \E acked \in {0, 1} : Bus_send_byte(charset(Top.ptr), acked)
    /\ LET w2 == Char(Top.w - 1)
       IN IF w2 = 0 \/ Top.i - 1 <= 0
          THEN Goto([Top EXCEPT !.ptr = @ + 1, !.w = w2,
                                !.i = IF w2 = 0 THEN @ ELSE @ - 1,
                                !.sub_offset = 0,
                                !.sp = next_char(Top.str, Top.sp)], "outer")
          ELSE Goto([Top EXCEPT !.ptr = @ + 1, !.w = w2, !.i = @ - 1],
                    "inner")
    /\ UNCHANGED <<ret, build, initOk, bit>>

\* a faulty end of oled_marquee that moves on by one column whatever the speed
oled_marquee_stop_unit ==
    /\ At("oled_marquee", "outer")
    /\ Top.w = 0
    /\ Bus_stop
    /\ ReturnStore(Top.offset, advance_offset(Top.str, Deref(Top.offset), 1))
    /\ UNCHANGED <<build, initOk, bit>>

\* i2c_stop(); *offset += speed; wrap
oled_marquee_stop ==
    /\ At("oled_marquee", "outer")
    /\ Top.w = 0
    /\ Bus_stop
    /\ ReturnStore(Top.offset,
                   advance_offset(Top.str, Deref(Top.offset), Top.speed))
    /\ UNCHANGED <<build, initOk, bit>>

----------------------------------------------------------------------------
(* oled_bungee_marquee_aux(str, offset, w) *)

oled_bungee_marquee_aux_frame(str, offset, w) ==
    [fn |-> "oled_bungee_marquee_aux", pc |-> "outer", str |-> str, w |-> w,
     midpoint |-> Shr(w, 1), scale |-> 0, sp |-> Shr(offset, 3),
     sub_offset |-> BitAnd(offset, 7), ptr |-> 0, i |-> 0, j |-> 0]

\* c = *str_ptr; idx = ...; ptr = charset + idx * 8 + sub_offset;
\* i = 8 - sub_offset; j = 0
oled_bungee_marquee_aux_char ==
    /\ At("oled_bungee_marquee_aux", "outer")
    /\ Goto([Top EXCEPT
               !.ptr = glyph_idx(StrAt(Top.str, Top.sp)) * 8 + Top.sub_offset,
               !.i = 8 - Top.sub_offset, !.j = 0], "slice")
    /\ Bus_unchanged
    /\ UNCHANGED <<ret, build, initOk, bit>>

\* faulty scalings: the comparison with the midpoint the wrong way round;
\* the check against negative values left out
bungee_scale_inverted(scale, w, midpoint) ==
    LET s2 == scale + (IF w < midpoint THEN 1 ELSE -1)
    IN IF s2 < 0 THEN 0 ELSE s2
bungee_scale_unclamped(scale, w, midpoint) ==
    scale + (IF w > midpoint THEN 1 ELSE -1)

\* scale += (w > midpoint) ? 1 : -1; if (scale < 0) scale = 0;
bungee_scale(scale, w, midpoint) ==
    LET s2 == scale + (IF w > midpoint THEN 1 ELSE -1)
    IN IF s2 < 0 THEN 0 ELSE s2

\* a faulty loop that counts the width down once per glyph column, not once
\* per byte
oled_bungee_marquee_aux_col_percolumn ==
    /\ At("oled_bungee_marquee_aux", "slice")
    /\ \E acked \in {0, 1} : Bus_send_byte(charset(Top.ptr), acked)
    /\ IF Char(Top.j + 1) < 1 + (Top.scale \div 8)
       THEN /\ Goto([Top EXCEPT !.j = Char(@ + 1)], "slice")
            /\ UNCHANGED ret
       ELSE LET w2 == Top.w - 1
            IN IF w2 = 0
               THEN ReturnVoid
               ELSE /\ UNCHANGED ret
                    /\ LET f == [Top EXCEPT
                                   !.w = w2, !.j = 0, !.ptr = @ + 1,
                                   !.scale = bungee_scale(@, w2, Top.midpoint),
                                   !.i = @ - 1]
                       IN IF f.i > 0
                          THEN Goto(f, "slice")
                          ELSE Goto([f EXCEPT
                                       !.sub_offset = 0,
                                       !.sp = next_char(Top.str, Top.sp)],
                                    "outer")
    /\ UNCHANGED <<build, initOk, bit>>

\* i2c_send_byte(*ptr); if (--w == 0) return;  and, when the j loop ends,
\* ptr++ and the scaling; when the i loop ends, the step to the next character
oled_bungee_marquee_aux_col ==
    /\ At("oled_bungee_marquee_aux", "slice")
    /\ \E acked \in {0, 1} : Bus_send_byte(charset(Top.ptr), acked)
    /\ LET w2 == Top.w - 1
       IN IF w2 = 0
          THEN ReturnVoid
          ELSE /\ UNCHANGED ret
               /\ IF Char(Top.j + 1) < 1 + (Top.scale \div 8)
                  THEN Goto([Top EXCEPT !.w = w2, !.j = Char(@ + 1)], "slice")
                  ELSE LET f == [Top EXCEPT
                                   !.w = w2, !.j = 0, !.ptr = @ + 1,
                                   !.scale = bungee_scale(@, w2, Top.midpoint),
                                   !.i = @ - 1]
                       IN IF f.i > 0
                          THEN Goto(f, "slice")
                          ELSE Goto([f EXCEPT
                                       !.sub_offset = 0,
                                       !.sp = next_char(Top.str, Top.sp)],
                                    "outer")
    /\ UNCHANGED <<build, initOk, bit>>

----------------------------------------------------------------------------
(* oled_bungee_marquee(x, y, w, str, offset) *)

oled_bungee_marquee_frame(x, y, w, str, offset) ==
    [fn |-> "oled_bungee_marquee", pc |-> "call", x |-> x, y |-> y, w |-> w,
     str |-> str, offset |-> offset]

oled_bungee_marquee_call ==
    /\ At("oled_bungee_marquee", "call")
    /\ Call(oled_set_page_mode_frame(Top.y, Top.x), "start")
    /\ Bus_unchanged
    /\ UNCHANGED <<ret, build, initOk, bit>>

oled_bungee_marquee_start ==
    /\ At("oled_bungee_marquee", "start")
    /\ \E acked \in {0, 1} : Bus_start(OLED_ADDR, acked)
    /\ Goto(Top, "data")
    /\ UNCHANGED <<ret, build, initOk, bit>>

oled_bungee_marquee_data ==
    /\ At("oled_bungee_marquee", "data")
    /\ \E acked \in {0, 1} : Bus_send_byte(OLED_DATA, acked)
    /\ Goto(Top, "aux")
    /\ UNCHANGED <<ret, build, initOk, bit>>

\* oled_bungee_marquee_aux(str, *offset, w);
oled_bungee_marquee_aux_call ==
    /\ At("oled_bungee_marquee", "aux")
    /\ Call(oled_bungee_marquee_aux_frame(Top.str, Deref(Top.offset), Top.w),
            "stop")
    /\ Bus_unchanged
    /\ UNCHANGED <<ret, build, initOk, bit>>

\* i2c_stop(); (*offset)++; wrap
oled_bungee_marquee_stop ==
    /\ At("oled_bungee_marquee", "stop")
    /\ Bus_stop
    /\ ReturnStore(Top.offset, advance_offset(Top.str, Deref(Top.offset), 1))
    /\ UNCHANGED <<build, initOk, bit>>

----------------------------------------------------------------------------
(* oled_wobble(x, y, str, phase): the upper page (half 1), then the lower  *)
(* page (half 2)                                                           *)

oled_wobble_frame(x, y, str, phase) ==
    [fn |-> "oled_wobble", pc |-> "call", half |-> 1, x |-> x, y |-> y,
     str |-> str, phase |-> phase, shift |-> 0, sp |-> 0, ptr |-> 0, i |-> 0]

\* oled_set_page_mode(y, x);  resp.  oled_set_page_mode(y + 1, x);
oled_wobble_call ==
    /\ At("oled_wobble", "call")
    /\ Call(oled_set_page_mode_frame(
                IF Top.half = 1 THEN Top.y ELSE Char(Top.y + 1), Top.x),
            "start")
    /\ Bus_unchanged
    /\ UNCHANGED <<ret, build, initOk, bit>>

\* shift = *phase; str_ptr = str; i2c_start(OLED_ADDR);
oled_wobble_start ==
    /\ At("oled_wobble", "start")
    /\ \E acked \in {0, 1} : Bus_start(OLED_ADDR, acked)
    /\ Goto([Top EXCEPT !.shift = Deref(Top.phase), !.sp = 0], "data")
    /\ UNCHANGED <<ret, build, initOk, bit>>

oled_wobble_data ==
    /\ At("oled_wobble", "data")
    /\ \E acked \in {0, 1} : Bus_send_byte(OLED_DATA, acked)
    /\ Goto(Top, "char")
    /\ UNCHANGED <<ret, build, initOk, bit>>

\* *str_ptr != '\0': c = *str_ptr; idx = ...; ptr = charset + idx * 8; i = 8
oled_wobble_char ==
    /\ At("oled_wobble", "char")
    /\ StrAt(Top.str, Top.sp) # 0
    /\ Goto([Top EXCEPT !.ptr = glyph_idx(StrAt(Top.str, Top.sp)) * 8,
                        !.i = 8], "col")
    /\ Bus_unchanged
    /\ UNCHANGED <<ret, build, initOk, bit>>

\* the byte of one column: *ptr << offset on the upper page with
\* offset = cos_table_64_4[shift & 0x3f], *ptr >> offset on the lower page
\* with offset = 8 - cos_table_64_4[shift & 0x3f]; the argument of
\* i2c_send_byte is a char
\* a faulty lower byte: the glyph byte read as a signed char, so that the
\* right shift drags its sign bit along
wobble_byte_arith(half, g, shift) ==
    LET t == cos_table_64_4[BitAnd(shift, 63) + 1]
        v == IF g >= 128 THEN g - 256 ELSE g
    IN IF half = 1 THEN Char(g * Pow2(t)) ELSE Char(v \div Pow2(8 - t))

wobble_byte(half, g, shift) ==
    LET t == cos_table_64_4[BitAnd(shift, 63) + 1]
    IN IF half = 1 THEN Char(g * Pow2(t)) ELSE Char(Shr(g, 8 - t))

\* offset = ...[shift++ & 0x3f]; i2c_send_byte(*ptr++ << offset);
oled_wobble_col ==
    /\ At("oled_wobble", "col")
    /\ \E acked \in {0, 1} :
         Bus_send_byte(wobble_byte(Top.half, charset(Top.ptr), Top.shift),
                       acked)
    /\ LET f == [Top EXCEPT !.shift = Char(@ + 1), !.ptr = @ + 1, !.i = @ - 1]
       IN IF f.i > 0
          THEN Goto(f, "col")
          ELSE Goto([f EXCEPT !.sp = @ + 1], "char")
    /\ UNCHANGED <<ret, build, initOk, bit>>

\* a faulty end of the upper page that already advances the phase
oled_wobble_stop1_advance ==
    /\ At("oled_wobble", "char")
    /\ StrAt(Top.str, Top.sp) = 0
    /\ Top.half = 1
    /\ Bus_stop
    /\ stack' = <<[Top EXCEPT !.half = 2, !.pc = "call"],
                  [stack[2] EXCEPT ![Top.phase] = Char(@ + 1)]>>
                \o Tail(Tail(stack))
    /\ UNCHANGED <<ret, build, initOk, bit>>

\* i2c_stop(); after the upper page, on to the lower one
oled_wobble_stop1 ==
    /\ At("oled_wobble", "char")
    /\ StrAt(Top.str, Top.sp) = 0
    /\ Top.half = 1
    /\ Bus_stop
    /\ Goto([Top EXCEPT !.half = 2], "call")
    /\ UNCHANGED <<ret, build, initOk, bit>>

\* a faulty end whose phase counter is wider than 8 bits
oled_wobble_stop2_wide ==
    /\ At("oled_wobble", "char")
    /\ StrAt(Top.str, Top.sp) = 0
    /\ Top.half = 2
    /\ Bus_stop
    /\ ReturnStore(Top.phase, Deref(Top.phase) + 1)
    /\ UNCHANGED <<build, initOk, bit>>

\* i2c_stop(); (*phase)++;
oled_wobble_stop2 ==
    /\ At("oled_wobble", "char")
    /\ StrAt(Top.str, Top.sp) = 0
    /\ Top.half = 2
    /\ Bus_stop
    /\ ReturnStore(Top.phase, Char(Deref(Top.phase) + 1))
    /\ UNCHANGED <<build, initOk, bit>>

----------------------------------------------------------------------------
(* oled_contrast(c) *)

oled_contrast_frame(c) == [fn |-> "oled_contrast", pc |-> "start", c |-> c,
                           k |-> 0]

\* a faulty contrast sequence without the command prefix
oled_contrast_bytes_unframed(c) == <<OLED_SET_CONTRAST, c>>

oled_contrast_bytes(c) == <<OLED_CMD, OLED_SET_CONTRAST, c>>

oled_contrast_start ==
    /\ At("oled_contrast", "start")
    /\ \E acked \in {0, 1} : Bus_start(OLED_ADDR, acked)
    /\ Goto([Top EXCEPT !.k = 0], "send")
    /\ UNCHANGED <<ret, build, initOk, bit>>

oled_contrast_send ==
    /\ At("oled_contrast", "send")
    /\ Top.k < Len(oled_contrast_bytes(Top.c))
    /\ \E acked \in {0, 1} :
         Bus_send_byte(oled_contrast_bytes(Top.c)[Top.k + 1], acked)
    /\ Goto([Top EXCEPT !.k = @ + 1], "send")
    /\ UNCHANGED <<ret, build, initOk, bit>>

oled_contrast_stop ==
    /\ At("oled_contrast", "send")
    /\ Top.k >= Len(oled_contrast_bytes(Top.c))
    /\ Bus_stop
    /\ ReturnVoid
    /\ UNCHANGED <<build, initOk, bit>>

----------------------------------------------------------------------------
(* main() *)

\* "My little ssd1306+teensy 2.0 demo. "
message_1 == <<77, 121, 32, 108, 105, 116, 116, 108, 101, 32, 115, 115, 100, 49, 51, 48, 54, 43, 116, 101, 101, 110, 115, 121, 32, 50, 46, 48, 32, 100, 101, 109, 111, 46, 32>>
\* "Look... bendy text! :) "
message_2 == <<76, 111, 111, 107, 46, 46, 46, 32, 98, 101, 110, 100, 121, 32, 116, 101, 120, 116, 33, 32, 58, 41, 32>>
\* "Wobble!"
message_3 == <<87, 111, 98, 98, 108, 101, 33>>

main_frame ==
    [fn |-> "main", pc |-> "init", offset1 |-> 0, offset2 |-> 0, phase |-> 0,
     contrast |-> 0, frames |-> 0,
     m3_x |-> (128 - 8 * Len(message_3)) \div 2]

\* a call made by main(): frame g is pushed, main resumes at pc
MainCall(g, pc) ==
    /\ Call(g, pc)
    /\ starts' = 0
    /\ UNCHANGED <<ddr, peer, sent, shape, nacked, afterNack>>
    /\ UNCHANGED <<ret, build, initOk, bit>>

\* while (!oled_init()) ...
main_init ==
    /\ At("main", "init")
    /\ MainCall(oled_init_frame, "check")

\* a faulty main() that calls oled_init() once and goes on whatever it returns
main_check_once ==
    /\ At("main", "check")
    /\ Goto(Top, "clear")
    /\ Bus_unchanged
    /\ UNCHANGED <<ret, build, initOk, bit>>

\* the loop condition: on failure _delay_ms(20) and another attempt
main_check ==
    /\ At("main", "check")
    /\ IF ret = 0 THEN Goto(Top, "init") ELSE Goto(Top, "clear")
    /\ Bus_unchanged
    /\ UNCHANGED <<ret, build, initOk, bit>>

main_clear ==
    /\ At("main", "clear")
    /\ MainCall(oled_clear_frame, "blit1")

\* oled_blit(0, 0, 24, 3, head);
main_blit1 ==
    /\ At("main", "blit1")
    /\ MainCall(oled_blit_frame(0, 0, 24, 3, "head"), "blit2")

\* a faulty call that places the second image one column too far right
main_blit2_shifted ==
    /\ At("main", "blit2")
    /\ MainCall(oled_blit_frame(128 - 23, 0, 24, 3, "heels"), "loop")

\* oled_blit(128 - 24, 0, 24, 3, heels);
main_blit2 ==
    /\ At("main", "blit2")
    /\ MainCall(oled_blit_frame(128 - 24, 0, 24, 3, "heels"), "loop")

\* contrast += 3; if (contrast > 100) contrast -= 200;
next_contrast(c) == IF c + 3 > 100 THEN c + 3 - 200 ELSE c + 3
abs(v) == IF v < 0 THEN -v ELSE v

\* #ifdef DO_CONTRAST ... oled_contrast(abs(contrast) + 30);
main_contrast ==
    /\ At("main", "loop")
    /\ Top.frames < MaxFrames
    /\ build.contrast
    /\ stack' = <<oled_contrast_frame(
                      Char(abs(next_contrast(Top.contrast)) + 30)),
                  [Top EXCEPT !.pc = "marquee",
                              !.contrast = next_contrast(@)]>>
                \o Tail(stack)
    /\ starts' = 0
    /\ UNCHANGED <<ddr, peer, sent, shape, nacked, afterNack>>
    /\ UNCHANGED <<ret, build, initOk, bit>>

\* oled_marquee(24, 2, 128 - 24 - 24, message_1, &offset1, 2);
main_marquee ==
    /\ \/ At("main", "marquee")
       \/ At("main", "loop") /\ Top.frames < MaxFrames /\ ~build.contrast
    /\ MainCall(oled_marquee_frame(24, 2, 128 - 24 - 24, message_1,
                                   "offset1", 2), "bungee")

\* oled_bungee_marquee(0, 3, 128, message_2, &offset2);
main_bungee ==
    /\ At("main", "bungee")
    /\ MainCall(oled_bungee_marquee_frame(0, 3, 128, message_2, "offset2"),
                "wobble")

\* oled_wobble(m3_x, 0, message_3, &phase);  and back to the loop head
main_wobble ==
    /\ At("main", "wobble")
    /\ stack' = <<oled_wobble_frame(Top.m3_x, 0, message_3, "phase"),
                  [Top EXCEPT !.pc = "loop", !.frames = @ + 1]>>
                \o Tail(stack)
    /\ starts' = 0
    /\ UNCHANGED <<ddr, peer, sent, shape, nacked, afterNack>>
    /\ UNCHANGED <<ret, build, initOk, bit>>

----------------------------------------------------------------------------
(* A caller that invokes any operation of the driver with arguments from   *)
(* small sets (Spec), and one that renders every one-character string      *)
(* (SpecGlyph)                                                             *)

caller_frame(mode) ==
    [fn |-> "caller", pc |-> "idle", mode |-> mode, op |-> "none",
     offset |-> 0, phase |-> 0, call |-> [fn |-> "none"], offset0 |-> 0,
     phase0 |-> 0]

\* "AB", a string of codes at the edges of the printable range, a high code
Strings == {<<65, 66>>, <<127, 31>>, <<200>>}
Speeds == {1, 2, 8}
Phases == {0, 63, 255}
Contrasts == {0, 30, 130, 255}

\* call op with frame g; the caller's offset and phase are set before it,
\* and the call and their values at the call are kept for reference
CallerCall(mode, op, g, offset, phase) ==
    /\ At("caller", "idle")
    /\ Top.mode = mode
    /\ stack' = <<g, [Top EXCEPT !.pc = "returned", !.op = op,
                                 !.offset = offset, !.phase = phase,
                                 !.call = g, !.offset0 = offset,
                                 !.phase0 = phase]>>
    /\ starts' = 0
    /\ UNCHANGED <<ddr, peer, sent, shape, nacked, afterNack>>
    /\ UNCHANGED <<ret, build, initOk, bit>>

\* the caller is done with the results of the call; the observers of the
\* call are reset with them
caller_done ==
    /\ At("caller", "returned")
    /\ stack' = <<caller_frame(Top.mode)>>
    /\ ret' = 0
    /\ sent' = <<>>
    /\ starts' = 0
    /\ nacked' = FALSE
    /\ afterNack' = FALSE
    /\ initOk' = FALSE
    /\ UNCHANGED <<ddr, peer, shape, build, bit>>

caller_init == CallerCall("api", "oled_init", oled_init_frame, 0, 0)

caller_clear == CallerCall("api", "oled_clear", oled_clear_frame, 0, 0)

caller_set_page_mode ==
    /\ At("caller", "idle")
    /\ \E page \in {0, 3, 7}, x \in {0, 15, 16, 127} :
           CallerCall("api", "oled_set_page_mode",
                      oled_set_page_mode_frame(page, x), 0, 0)

caller_blit ==
    /\ At("caller", "idle")
    /\ \E x \in {0, 128 - 24}, y \in {0, 1}, w \in 1 .. MaxW, h \in 1 .. 2,
          image \in {"head", "heels"} :
           CallerCall("api", "oled_blit", oled_blit_frame(x, y, w, h, image),
                      0, 0)

caller_write ==
    /\ At("caller", "idle")
    /\ \E x \in {0, 100}, y \in {0, 3}, str \in Strings :
           CallerCall("api", "oled_write", oled_write_frame(x, y, str), 0, 0)

caller_marquee ==
    /\ At("caller", "idle")
    /\ \E w \in 1 .. MaxW, str \in Strings, speed \in Speeds :
           \E offset \in 0 .. 8 * Len(str) - 1 :
               CallerCall("api", "oled_marquee",
                          oled_marquee_frame(24, 2, w, str, "offset", speed),
                          offset, 0)

caller_bungee_marquee ==
    /\ At("caller", "idle")
    /\ \E w \in 1 .. MaxW, str \in Strings :
           \E offset \in 0 .. 8 * Len(str) - 1 :
               CallerCall("api", "oled_bungee_marquee",
                          oled_bungee_marquee_frame(0, 3, w, str, "offset"),
                          offset, 0)

caller_wobble ==
    /\ At("caller", "idle")
    /\ \E str \in Strings, phase \in Phases :
           CallerCall("api", "oled_wobble",
                      oled_wobble_frame(36, 0, str, "phase"), 0, phase)

caller_contrast ==
    /\ At("caller", "idle")
    /\ \E c \in Contrasts :
           CallerCall("api", "oled_contrast", oled_contrast_frame(c), 0, 0)

\* oled_set_page_mode on every page and column (SpecPage)
page_set_page_mode ==
    /\ At("caller", "idle")
    /\ \E page \in 0 .. 7, x \in 0 .. 127 :
           CallerCall("page", "oled_set_page_mode",
                      oled_set_page_mode_frame(page, x), 0, 0)

\* every renderer on the one-character string of every character code
glyph_write ==
    /\ At("caller", "idle")
    /\ \E c \in 1 .. 255 :
           CallerCall("glyph", "oled_write", oled_write_frame(0, 0, <<c>>), 0, 0)

glyph_marquee ==
    /\ At("caller", "idle")
    /\ \E c \in 1 .. 255 :
           CallerCall("glyph", "oled_marquee",
                      oled_marquee_frame(0, 0, 8, <<c>>, "offset", 1), 0, 0)

glyph_bungee_marquee ==
    /\ At("caller", "idle")
    /\ \E c \in 1 .. 255 :
           CallerCall("glyph", "oled_bungee_marquee",
                      oled_bungee_marquee_frame(0, 0, 8, <<c>>, "offset"), 0, 0)

glyph_wobble ==
    /\ At("caller", "idle")
    /\ \E c \in 1 .. 255 :
           CallerCall("glyph", "oled_wobble",
                      oled_wobble_frame(0, 0, <<c>>, "phase"), 0, 0)

\* one oled_clear() on a display whose RAM writes are followed (SpecClear)
clear_once == CallerCall("clear", "oled_clear", oled_clear_frame, 0, 0)

BungeeStrings == {<<65, 66>>, <<200>>}

\* one oled_bungee_marquee() of any width, message and offset (SpecBungee)
bungee_once ==
    /\ At("caller", "idle")
    /\ \E w \in 1 .. MaxBungeeW, str \in BungeeStrings :
           \E offset \in 0 .. 8 * Len(str) - 1 :
               CallerCall("bungee", "oled_bungee_marquee",
                          oled_bungee_marquee_frame(0, 3, w, str, "offset"),
                          offset, 0)

\* the two bytes of one glyph column g at running column counter shift: the
\* byte of the first pass (upper page), then the byte of the second pass
wobble_column_frame(g, shift) ==
    [fn |-> "wobble_column", pc |-> "upper", g |-> g, shift |-> shift,
     upper |-> 0, lower |-> 0]

wobble_column_upper ==
    /\ At("wobble_column", "upper")
    /\ Goto([Top EXCEPT !.upper = wobble_byte(1, Top.g, Top.shift)], "lower")
    /\ Bus_unchanged
    /\ UNCHANGED <<ret, build, initOk, bit>>

wobble_column_lower ==
    /\ At("wobble_column", "lower")
    /\ Goto([Top EXCEPT !.lower = wobble_byte(2, Top.g, Top.shift)], "done")
    /\ Bus_unchanged
    /\ UNCHANGED <<ret, build, initOk, bit>>

\* a caller that scrolls one message: it calls oled_marquee (with one speed)
\* or oled_bungee_marquee again and again on the same offset variable
scroll_frame(op, str, speed, w, offset) ==
    [fn |-> "caller", pc |-> "idle", mode |-> "scroll", op |-> op,
     offset |-> offset, phase |-> 0, call |-> [fn |-> "none"],
     offset0 |-> offset, phase0 |-> 0, str |-> str, speed |-> speed,
     w |-> w, start |-> offset, calls |-> 0]

scroll_call ==
    /\ At("caller", "idle")
    /\ Top.mode = "scroll"
    /\ Top.calls < MaxCalls
    /\ LET g == IF Top.op = "oled_marquee"
                THEN oled_marquee_frame(0, 0, Top.w, Top.str, "offset",
                                        Top.speed)
                ELSE oled_bungee_marquee_frame(0, 0, Top.w, Top.str, "offset")
       IN stack' = <<g, [Top EXCEPT !.pc = "returned", !.call = g,
                                    !.offset0 = Top.offset,
                                    !.calls = @ + 1]>>
    /\ starts' = 0
    /\ UNCHANGED <<ddr, peer, sent, shape, nacked, afterNack>>
    /\ UNCHANGED <<ret, build, initOk, bit>>

\* on to the next call, with the offset as the last call left it
scroll_done ==
    /\ At("caller", "returned")
    /\ Top.mode = "scroll"
    /\ stack' = <<[Top EXCEPT !.pc = "idle"]>>
    /\ ret' = 0
    /\ sent' = <<>>
    /\ starts' = 0
    /\ nacked' = FALSE
    /\ afterNack' = FALSE
    /\ UNCHANGED <<ddr, peer, shape, build, initOk, bit>>

\* a caller that calls oled_wobble again and again on the same phase
\* variable, as the loop of main() does
wobbler_frame(str, phase) ==
    [fn |-> "caller", pc |-> "idle", mode |-> "wobble", op |-> "oled_wobble",
     offset |-> 0, phase |-> phase, call |-> [fn |-> "none"], offset0 |-> 0,
     phase0 |-> phase, str |-> str, start |-> phase, calls |-> 0]

wobbler_call ==
    /\ At("caller", "idle")
    /\ Top.mode = "wobble"
    /\ Top.calls < MaxCalls
    /\ LET g == oled_wobble_frame(36, 0, Top.str, "phase")
       IN stack' = <<g, [Top EXCEPT !.pc = "returned", !.call = g,
                                    !.phase0 = Top.phase,
                                    !.calls = @ + 1]>>
    /\ starts' = 0
    /\ UNCHANGED <<ddr, peer, sent, shape, nacked, afterNack>>
    /\ UNCHANGED <<ret, build, initOk, bit>>

\* on to the next call, with the phase as the last call left it
wobbler_done ==
    /\ At("caller", "returned")
    /\ Top.mode = "wobble"
    /\ stack' = <<[Top EXCEPT !.pc = "idle"]>>
    /\ ret' = 0
    /\ sent' = <<>>
    /\ starts' = 0
    /\ nacked' = FALSE
    /\ afterNack' = FALSE
    /\ UNCHANGED <<ddr, peer, shape, build, initOk, bit>>

----------------------------------------------------------------------------
(* Pin level: one i2c_send_byte(c) call, one pin instruction per step,     *)
(* against a peer that may stretch the clock and drive the data line       *)

BitIdle == [c |-> 0, ip |-> 0, scl |-> FALSE, sda |-> FALSE, highs |-> <<>>,
            clocks |-> 0, acked |-> -1, ackAt |-> -1]

\* the pin instructions of the primitive that is running
BitOps ==
    CASE Top.fn = "i2c_start" -> i2c_start(bit.c)
      [] Top.fn = "i2c_stop"  -> i2c_stop
      [] OTHER                -> send_byte_ops[bit.c]

\* wired-AND lines: high when neither side pulls
LineHigh(pin) ==
    ddr[pin] = 0 /\ ~(IF pin = SCL THEN bit.scl ELSE bit.sda)

\* the next pin instruction of the master; the busy-wait of i2c_clock
\* passes only once the clock line reads high
bit_exec ==
    /\ bit.ip >= 1
    /\ bit.ip <= Len(BitOps)
    /\ LET ins == BitOps[bit.ip]
       IN /\ ins.op = "wait" => LineHigh(SCL)
          /\ ddr' = ExecPin(ddr, ins)
          /\ bit' = [bit EXCEPT
                       !.ip = @ + 1,
                       !.highs = IF ins.op = "wait"
                                 THEN Append(@, 1 - ddr[SDA]) ELSE @,
                       !.clocks = IF ins = i2c_pulldown(SCL) THEN @ + 1 ELSE @,
                       !.acked = IF ins.op = "read"
                                 THEN (IF LineHigh(SDA) THEN 0 ELSE 1) ELSE @,
                       !.ackAt = IF ins.op = "read" THEN bit.clocks ELSE @]
    /\ UNCHANGED <<stack, ret, peer, build, sent, shape, starts, nacked,
                   afterNack, initOk>>

\* clock stretching: the peer takes hold of the clock while the master
\* holds it low, and lets go whenever it likes
bit_peer_scl ==
    /\ bit.ip >= 1
    /\ bit.ip <= Len(BitOps)
    /\ bit.scl \/ ddr[SCL] = 1
    /\ bit' = [bit EXCEPT !.scl = ~@]
    /\ UNCHANGED <<ddr, stack, ret, peer, build, sent, shape, starts, nacked,
                   afterNack, initOk>>

\* the peer changes its drive of the data line while the clock is low
bit_peer_sda ==
    /\ bit.ip >= 1
    /\ bit.ip <= Len(BitOps)
    /\ ~LineHigh(SCL)
    /\ bit' = [bit EXCEPT !.sda = ~@]
    /\ UNCHANGED <<ddr, stack, ret, peer, build, sent, shape, starts, nacked,
                   afterNack, initOk>>

----------------------------------------------------------------------------
(* Power-up of the peripheral (SpecPower) *)

PowerOn ==
    /\ peer.mode = "off"
    /\ peer' = [mode |-> "on", inTxn |-> FALSE]
    /\ UNCHANGED <<ddr, stack, ret, build, sent, shape, starts, nacked,
                   afterNack, initOk, bit>>

----------------------------------------------------------------------------
(* Specifications *)

\* ALTERNATIVE_OLED_ADDRESS, FLIPPED, DO_CONTRAST
Builds(alts, flips, contrasts) ==
    [alt : alts, flipped : flips, contrast : contrasts]

InitCommon ==
    /\ ddr = i2c_init
    /\ ret = 0
    /\ sent = <<>>
    /\ shape = "idle"
    /\ starts = 0
    /\ nacked = FALSE
    /\ afterNack = FALSE
    /\ initOk = FALSE
    /\ bit = BitIdle

sequence_steps ==
    \/ oled_sequence_start
    \/ oled_sequence_send
    \/ oled_sequence_stop

init_steps ==
    \/ oled_init_call
    \/ oled_init_return

clear_steps ==
    \/ oled_clear_call
    \/ oled_clear_start
    \/ oled_clear_data
    \/ oled_clear_zero
    \/ oled_clear_stop

set_page_mode_steps ==
    \/ oled_set_page_mode_start
    \/ oled_set_page_mode_send
    \/ oled_set_page_mode_stop

blit_steps ==
    \/ oled_blit_start
    \/ oled_blit_mode
    \/ oled_blit_mode_stop
    \/ oled_blit_page
    \/ oled_blit_return
    \/ oled_blit_dstart
    \/ oled_blit_data
    \/ oled_blit_row
    \/ oled_blit_row_stop

write_steps ==
    \/ oled_write_call
    \/ oled_write_start
    \/ oled_write_data
    \/ oled_write_char
    \/ oled_write_col
    \/ oled_write_stop

marquee_steps ==
    \/ oled_marquee_call
    \/ oled_marquee_start
    \/ oled_marquee_data
    \/ oled_marquee_char
    \/ oled_marquee_col
    \/ oled_marquee_stop

bungee_marquee_steps ==
    \/ oled_bungee_marquee_call
    \/ oled_bungee_marquee_start
    \/ oled_bungee_marquee_data
    \/ oled_bungee_marquee_aux_call
    \/ oled_bungee_marquee_aux_char
    \/ oled_bungee_marquee_aux_col
    \/ oled_bungee_marquee_stop

wobble_steps ==
    \/ oled_wobble_call
    \/ oled_wobble_start
    \/ oled_wobble_data
    \/ oled_wobble_char
    \/ oled_wobble_col
    \/ oled_wobble_stop1
    \/ oled_wobble_stop2

contrast_steps ==
    \/ oled_contrast_start
    \/ oled_contrast_send
    \/ oled_contrast_stop

\* any sequence of calls of the driver's operations, any acknowledges
Init ==
    /\ InitCommon
    /\ stack = <<caller_frame("api")>>
    /\ peer = [mode |-> "any", inTxn |-> FALSE]
    /\ build \in Builds(BOOLEAN, BOOLEAN, {FALSE})

Next ==
    \/ caller_done
    \/ caller_init
    \/ caller_clear
    \/ caller_set_page_mode
    \/ caller_blit
    \/ caller_write
    \/ caller_marquee
    \/ caller_bungee_marquee
    \/ caller_wobble
    \/ caller_contrast
    \/ sequence_steps
    \/ init_steps
    \/ clear_steps
    \/ set_page_mode_steps
    \/ blit_steps
    \/ write_steps
    \/ marquee_steps
    \/ bungee_marquee_steps
    \/ wobble_steps
    \/ contrast_steps

Spec == Init /\ [][Next]_vars

\* the four renderers on every one-character string
InitGlyph ==
    /\ InitCommon
    /\ stack = <<caller_frame("glyph")>>
    /\ peer = [mode |-> "any", inTxn |-> FALSE]
    /\ build \in Builds({FALSE}, {FALSE}, {FALSE})

NextGlyph ==
    \/ caller_done
    \/ glyph_write
    \/ glyph_marquee
    \/ glyph_bungee_marquee
    \/ glyph_wobble
    \/ set_page_mode_steps
    \/ write_steps
    \/ marquee_steps
    \/ bungee_marquee_steps
    \/ wobble_steps

SpecGlyph == InitGlyph /\ [][NextGlyph]_vars

\* oled_set_page_mode on every page and column
InitPage ==
    /\ InitCommon
    /\ stack = <<caller_frame("page")>>
    /\ peer = [mode |-> "any", inTxn |-> FALSE]
    /\ build \in Builds(BOOLEAN, {FALSE}, {FALSE})

NextPage ==
    \/ caller_done
    \/ page_set_page_mode
    \/ set_page_mode_steps

SpecPage == InitPage /\ [][NextPage]_vars

\* a message scrolled by repeated calls, from every offset inside it:
\* oled_marquee at every speed 1..8, oled_bungee_marquee
ScrollStrings == {<<65, 66>>, <<200>>}

InitScroll ==
    /\ InitCommon
    /\ \E str \in ScrollStrings, w \in {2, MaxScrollW} :
         \E o \in 0 .. 8 * Len(str) - 1 :
            \/ \E speed \in 1 .. 8 :
                 stack = <<scroll_frame("oled_marquee", str, speed, w, o)>>
            \/ stack = <<scroll_frame("oled_bungee_marquee", str, 1, w, o)>>
    /\ peer = [mode |-> "any", inTxn |-> FALSE]
    /\ build \in Builds({FALSE}, {FALSE}, {FALSE})

NextScroll ==
    \/ scroll_call
    \/ scroll_done
    \/ set_page_mode_steps
    \/ marquee_steps
    \/ bungee_marquee_steps

SpecScroll == InitScroll /\ [][NextScroll]_vars

\* one oled_clear() to a display that acknowledges, whatever addressing mode
\* and address pointer the display was left with
InitClear ==
    /\ InitCommon
    /\ stack = <<caller_frame("clear")>>
    /\ \E m \in {0, 2}, a \in {<<0, 0>>, <<3, 57>>, <<7, 127>>} :
         peer = [mode |-> "on", inTxn |-> FALSE,
                 gram |-> [DispReset EXCEPT !.amode = m, !.page = a[1],
                                            !.col = a[2]]]
    /\ build \in Builds(BOOLEAN, BOOLEAN, {FALSE})

NextClear ==
    \/ clear_once
    \/ clear_steps
    \/ sequence_steps

SpecClear == InitClear /\ [][NextClear]_vars

\* any sequence of calls of the driver's operations to a display that
\* acknowledges and follows the commands; it starts as oled_clear() leaves
\* it: horizontal addressing mode, the pointer behind the 512 cells written
InitDraw ==
    /\ InitCommon
    /\ stack = <<caller_frame("api")>>
    /\ peer = [mode |-> "on", inTxn |-> FALSE,
               gram |-> [DispReset EXCEPT !.rec = FALSE, !.amode = 0,
                                          !.page = 4]]
    /\ build \in Builds({FALSE}, {FALSE}, {FALSE})

SpecDraw == InitDraw /\ [][Next]_vars

\* one oled_bungee_marquee() call, any acknowledges; the processor always
\* takes its next step
InitBungee ==
    /\ InitCommon
    /\ stack = <<caller_frame("bungee")>>
    /\ peer = [mode |-> "any", inTxn |-> FALSE]
    /\ build \in Builds({FALSE}, {FALSE}, {FALSE})

NextBungee ==
    \/ bungee_once
    \/ set_page_mode_steps
    \/ bungee_marquee_steps

SpecBungee == InitBungee /\ [][NextBungee]_vars /\ WF_vars(NextBungee)

\* the byte pair of oled_wobble for every glyph byte and every index into
\* the table of shifts
InitColumn ==
    /\ InitCommon
    /\ \E g \in 0 .. 255, shift \in 0 .. 63 :
         stack = <<wobble_column_frame(g, shift)>>
    /\ peer = [mode |-> "any", inTxn |-> FALSE]
    /\ build \in Builds({FALSE}, {FALSE}, {FALSE})

NextColumn ==
    \/ wobble_column_upper
    \/ wobble_column_lower

SpecColumn == InitColumn /\ [][NextColumn]_vars

\* a message wobbled by repeated calls, from phases before each multiple of
\* 64 and before the wrap of the 8-bit counter
WobblePhases == {0, 60, 124, 188, 252}

InitWobble ==
    /\ InitCommon
    /\ \E str \in {<<65, 66>>, <<200>>}, phase \in WobblePhases :
         stack = <<wobbler_frame(str, phase)>>
    /\ peer = [mode |-> "any", inTxn |-> FALSE]
    /\ build \in Builds({FALSE}, {FALSE}, {FALSE})

NextWobble ==
    \/ wobbler_call
    \/ wobbler_done
    \/ set_page_mode_steps
    \/ wobble_steps

SpecWobble == InitWobble /\ [][NextWobble]_vars

\* main(), any acknowledges
main_steps ==
    \/ main_init
    \/ main_check
    \/ main_clear
    \/ main_blit1
    \/ main_blit2
    \/ main_contrast
    \/ main_marquee
    \/ main_bungee
    \/ main_wobble

InitMain ==
    /\ InitCommon
    /\ stack = <<main_frame>>
    /\ peer = [mode |-> "any", inTxn |-> FALSE]
    /\ build \in Builds(BOOLEAN, BOOLEAN, BOOLEAN)

NextMain ==
    \/ main_steps
    \/ sequence_steps
    \/ init_steps
    \/ clear_steps
    \/ set_page_mode_steps
    \/ blit_steps
    \/ marquee_steps
    \/ bungee_marquee_steps
    \/ wobble_steps
    \/ contrast_steps

SpecMain == InitMain /\ [][NextMain]_vars

\* main() against a peripheral that is powered up at some time: the
\* program always takes its next step, and the power-up happens
InitPower ==
    /\ InitCommon
    /\ stack = <<main_frame>>
    /\ peer = [mode |-> "off", inTxn |-> FALSE]
    /\ build \in Builds(BOOLEAN, BOOLEAN, BOOLEAN)

NextPower ==
    \/ NextMain
    \/ PowerOn

SpecPower ==
    InitPower /\ [][NextPower]_vars /\ WF_vars(NextMain) /\ WF_vars(PowerOn)

\* one i2c_send_byte(c) at the pin level, for every byte c; at the call the
\* master holds the clock low (a start or a byte went before)
InitBit ==
    /\ ddr \in {d \in [{SCL, SDA} -> {0, 1}] : d[SCL] = 1}
    /\ stack = <<[fn |-> "i2c_send_byte", pc |-> "pins"]>>
    /\ ret = 0
    /\ peer = [mode |-> "any", inTxn |-> TRUE]
    /\ build \in Builds({FALSE}, {FALSE}, {FALSE})
    /\ sent = <<>>
    /\ shape = "open"
    /\ starts = 0
    /\ nacked = FALSE
    /\ afterNack = FALSE
    /\ initOk = FALSE
    /\ \E c \in 0 .. 255 : bit = [BitIdle EXCEPT !.c = c, !.ip = 1]

NextBit ==
    \/ bit_exec
    \/ bit_peer_scl
    \/ bit_peer_sda

SpecBit == InitBit /\ [][NextBit]_vars

\* each of the three primitives at the pin level: i2c_start(OLED_ADDR) after
\* a stop (both lines released) or after the return of oled_sequence on an
\* address byte that was not acknowledged (the clock still held low);
\* i2c_send_byte(c) and i2c_stop() after a start or a byte (the clock held
\* low, the data line as the last bit left it)
InitWire ==
    /\ stack \in {<<[fn |-> f, pc |-> "pins"]>> :
                     f \in {"i2c_start", "i2c_send_byte", "i2c_stop"}}
    /\ build \in Builds(BOOLEAN, {FALSE}, {FALSE})
    /\ ddr \in IF Top.fn = "i2c_start"
               THEN {i2c_init, [i2c_init EXCEPT ![SCL] = 1]}
               ELSE {d \in [{SCL, SDA} -> {0, 1}] : d[SCL] = 1}
    /\ \E c \in 0 .. 255 :
         /\ Top.fn = "i2c_start" => c = OLED_ADDR
         /\ Top.fn = "i2c_stop" => c = 0
         /\ bit = [BitIdle EXCEPT !.c = c, !.ip = 1]
    /\ ret = 0
    /\ peer = [mode |-> "any", inTxn |-> TRUE]
    /\ sent = <<>>
    /\ shape = "open"
    /\ starts = 0
    /\ nacked = FALSE
    /\ afterNack = FALSE
    /\ initOk = FALSE

SpecWire == InitWire /\ [][NextBit]_vars

\* the same, with a processor that always executes its next instruction (the
\* busy-wait included: it passes whenever the clock line stays high)
SpecBitFair == SpecBit /\ WF_vars(bit_exec)

----------------------------------------------------------------------------
(* Properties *)

\* the top-level call made by the caller of Spec has returned
Returned(op) == At("caller", "returned") /\ Top.op = op

\* C1: at the return of every operation (init, clear, set page mode, blit,
\* write, marquee, bungee marquee, wobble, contrast), whatever the peer
\* acknowledged, the master drives neither line: SCL and SDA are released.
C1_LinesReleasedAtReturn ==
    At("caller", "returned") => ddr = i2c_init

\* C2: the bus operations of any sequence of calls form repetitions of one
\* start, any number of sendByte, one stop: no byte outside a bracket, no
\* second start before the stop of the previous one, and when an operation
\* returns its last start has been closed by a stop.
C2_StartBytesStop ==
    /\ shape # "bad"
    /\ At("caller", "returned") => shape = "idle"

\* C3: oled_init() returns success iff the address byte and each of the 19
\* configuration bytes were acknowledged; after the first byte that is not
\* acknowledged it sends no further byte and returns failure.
C3_InitSuccessIffAllAcked ==
    Returned("oled_init") =>
        /\ ret # 0 <=> (~nacked /\ Len(sent) = 1 + 19)
        /\ nacked => ret = 0
        /\ ~afterNack

\* oled_init() gave up on a configuration byte that was not acknowledged
C3_Witness ==
    /\ Returned("oled_init")
    /\ nacked
    /\ Len(sent) = 5
    /\ ret = 0

\* C4: non-flipped build, every byte acknowledged: one oled_init() puts on
\* the bus, after the address byte 0x78, exactly the 19 bytes 00 A8 1F D3 00
\* 40 A0 C0 DA 02 81 7F A4 A6 D5 80 8D 14 AF, in a single transaction (one
\* start, closed by a stop that releases the lines).
C4_InitByteSequence ==
    (Returned("oled_init") /\ ~build.flipped /\ ~build.alt /\ ~nacked) =>
        /\ sent = <<120, 0, 168, 31, 211, 0, 64, 160, 192, 218, 2, 129, 127,
                    164, 166, 213, 128, 141, 20, 175>>
        /\ starts = 1
        /\ shape # "open"
        /\ ddr = i2c_init

C4_Witness ==
    /\ Returned("oled_init")
    /\ ~build.flipped
    /\ ~build.alt
    /\ ~nacked
    /\ ret = 1
    /\ shape = "idle"

\* one i2c_send_byte call of SpecBit has run all its pin instructions
SendByteDone == bit.ip = Len(BitOps) + 1

\* C5: for every byte b, i2c_send_byte makes eight data clock cycles and then
\* one acknowledge clock cycle, and in the k-th clock-high phase (k = 0..7)
\* the master's data line carries bit 7-k of b (released for 1, low for 0);
\* for b = 0xA5 the eight phases carry 1,0,1,0,0,1,0,1.
C5_MsbFirstNineClocks ==
    SendByteDone =>
        /\ bit.clocks = 9
        /\ Len(bit.highs) = 9
        /\ bit.ackAt = 8
        /\ \A k \in 0 .. 7 : bit.highs[k + 1] = BitOf(bit.c, 7 - k)
        /\ bit.highs[9] = 1
        /\ bit.c = 165 => SubSeq(bit.highs, 1, 8) = <<1, 0, 1, 0, 0, 1, 0, 1>>

C5_Witness ==
    /\ SendByteDone
    /\ bit.c = 165
    /\ bit.highs = <<1, 0, 1, 0, 0, 1, 0, 1, 1>>

\* the functions that draw: everything but oled_init and its oled_sequence
Drawing ==
    {"oled_clear", "oled_set_page_mode", "oled_blit", "oled_write",
     "oled_marquee", "oled_bungee_marquee", "oled_bungee_marquee_aux",
     "oled_wobble", "oled_contrast"}

MainPc == stack[Len(stack)].pc

\* C6: main() issues no clear, blit or renderer transaction before some
\* oled_init() has returned success: a failed oled_init() is followed by
\* another oled_init() and never by a drawing operation, and the first
\* drawing operation, oled_clear(), follows a successful oled_init().
C6_NoDrawingBeforeInitOk ==
    /\ [](/\ (\E k \in 1 .. Len(stack) : stack[k].fn \in Drawing) => initOk
          /\ MainPc \notin {"init", "check"} => initOk)
    /\ [][/\ (At("main", "check") /\ ret = 0) => At("main", "init")'
          /\ At("main", "init") => At("oled_init", "call")'
          /\ (~At("oled_clear", "call") /\ At("oled_clear", "call")'
              /\ MainPc = "clear") => (ret # 0 /\ initOk)]_vars

\* oled_clear() is entered after an attempt that was not acknowledged on the
\* address byte (the bracket observer has seen its unclosed start) and a
\* later one that succeeded
C6_Witness ==
    /\ At("oled_clear", "call")
    /\ initOk
    /\ shape = "bad"

\* C7: the retry loop of main() recovers from a nack: when the first
\* attempts are not acknowledged (peripheral not powered) and from some
\* point on the peripheral acknowledges every byte of a transaction that
\* begins with a start condition, some later oled_init() returns success.
C7_RetryEventuallySucceeds == <>initOk

\* C8: for every column x in 0..127 and page p in 0..7, oled_set_page_mode
\* puts on the bus in one transaction, after the address byte, exactly 00 20
\* 02 B0|p 10|(x>>4) 00|(x&0F): the upper nibble before the lower one, page
\* byte in B0..B7, upper byte in 10..17, lower byte in 00..0F, and the
\* nibbles recombine to x.
C8_PageModeBytes ==
    /\ (At("oled_set_page_mode", "send") /\ Top.k = 6) =>
          /\ sent = <<OLED_ADDR, 0, 32, 2, 176 + Top.page,
                      16 + (Top.x \div 16), Top.x % 16>>
          /\ (sent[6] - 16) * 16 + sent[7] = Top.x
          /\ starts = 1
    /\ Returned("oled_set_page_mode") =>
          /\ Len(sent) = 7
          /\ SubSeq(sent, 2, 4) = <<0, 32, 2>>
          /\ sent[5] \in 176 .. 183
          /\ sent[6] \in 16 .. 23
          /\ sent[7] \in 0 .. 15
          /\ starts = 1
          /\ shape = "idle"
          /\ ddr = i2c_init

C8_Witness ==
    /\ Returned("oled_set_page_mode")
    /\ sent = <<120, 0, 32, 2, 183, 23, 15>>

\* a renderer is inside the glyph of the character CurChar: the next column
\* byte is charset[Top.ptr], Top.i bytes of the glyph are left, the slice of
\* the glyph starts at SliceStart
InGlyph ==
    \/ At("oled_write", "col")
    \/ At("oled_marquee", "inner")
    \/ At("oled_bungee_marquee_aux", "slice")
    \/ At("oled_wobble", "col")

CurChar == StrAt(Top.str, Top.sp)

SliceStart == Top.ptr + Top.i - 8

\* C9: for every character code c in [32,127), the glyph lookup of
\* oled_write, oled_marquee, oled_bungee_marquee and oled_wobble selects the
\* 8-byte slice of the table that starts at offset (c-32)*8.
C9_PrintableGlyphSlice ==
    (InGlyph /\ CurChar \in 32 .. 126) =>
        /\ SliceStart = (CurChar - 32) * 8
        /\ Top.ptr \in SliceStart .. SliceStart + 7

C9_Witness ==
    /\ At("oled_bungee_marquee_aux", "slice")
    /\ CurChar = 126
    /\ Top.ptr = 94 * 8 + 7

\* C10 as stated: every character code outside [32,127), in particular 31,
\* 127 and 200, gets the slice at the one fallback index, never the slice at
\* (c-32)*8.
C10_FallbackOutside32To127 ==
    (InGlyph /\ CurChar \notin 32 .. 126) =>
        /\ SliceStart = 3 * 8
        /\ SliceStart # (CurChar - 32) * 8

\* C10, amended: every character code outside [32,128), in particular 31 and
\* 200, gets the slice at the one fallback index 3, never the slice at
\* (c-32)*8; the code 127 is inside the table and gets the slice at 95*8.
C10_FallbackOutside32To128 ==
    /\ (InGlyph /\ CurChar \notin 32 .. 127) =>
          /\ SliceStart = 3 * 8
          /\ SliceStart # (CurChar - 32) * 8
    /\ (InGlyph /\ CurChar = 127) => SliceStart = 95 * 8

C10_Witness ==
    /\ At("oled_wobble", "col")
    /\ CurChar = 200
    /\ Top.ptr = 3 * 8
    /\ Top.i = 8

\* the scrolling caller of SpecScroll has its call back
Scrolled == At("caller", "returned") /\ Top.mode = "scroll"

\* C11: for a non-empty message of length L and an offset in [0, 8L), after
\* every oled_marquee call with speed in 1..8 and every oled_bungee_marquee
\* call (step 1) the caller's offset is in [0, 8L) and equals (previous
\* offset + step) mod 8L; so offset >> 3 is below the terminator whenever a
\* render call begins.
C11_OffsetWrapsModulo ==
    /\ Scrolled =>
          LET L == Len(Top.str)
              step == IF Top.op = "oled_marquee" THEN Top.speed ELSE 1
          IN /\ Top.offset \in 0 .. 8 * L - 1
             /\ Top.offset = (Top.offset0 + step) % (8 * L)
    /\ (At("oled_marquee", "call") \/ At("oled_bungee_marquee", "call")) =>
          /\ Shr(Deref(Top.offset), 3) < Len(Top.str)
          /\ StrAt(Top.str, Shr(Deref(Top.offset), 3)) # 0

\* "AB" at speed 8 from offset 15 (column 7 of 'B') wraps to offset 7
C11_Witness ==
    /\ Scrolled
    /\ Top.op = "oled_marquee"
    /\ Top.str = <<65, 66>>
    /\ Top.speed = 8
    /\ Top.offset0 = 15
    /\ Top.offset = 7

\* C12: for the message "AB" (16 bit positions), speed 2 and initial offset
\* 0, the offset is back at its initial value after 8 successive oled_marquee
\* calls and after no smaller positive number of calls.
C12_CycleOfEightCalls ==
    (/\ Scrolled
     /\ Top.op = "oled_marquee"
     /\ Top.str = <<65, 66>>
     /\ Top.speed = 2
     /\ Top.start = 0) =>
        /\ Top.calls \in 1 .. 7 => Top.offset # Top.start
        /\ Top.calls = 8 => Top.offset = Top.start
        /\ Top.offset = (2 * Top.calls) % 16

C12_Witness ==
    /\ Scrolled
    /\ Top.op = "oled_marquee"
    /\ Top.str = <<65, 66>>
    /\ Top.speed = 2
    /\ Top.start = 0
    /\ Top.calls = 8
    /\ Top.offset = 0

\* index into the font table of the glyph column at bit position
\* (o + k) mod 8L of message str: column (o + k) mod 8 of the glyph of
\* character ((o + k) mod 8L) div 8
ColumnAt(str, o, k) ==
    LET pos == (o + k) % (8 * Len(str))
    IN glyph_idx(str[(pos \div 8) + 1]) * 8 + (pos % 8)

\* C13: for a message of length L >= 1, an offset o in [0, 8L) and a width
\* w >= 1, one oled_marquee call streams exactly w data bytes after the 0x40
\* prefix, and data byte k is the glyph column at bit position (o + k) mod 8L
\* of the message: the window wraps to the start of the message.
C13_MarqueeWindow ==
    /\ (At("oled_marquee", "inner") /\ stack[2].mode = "scroll") =>
          /\ Len(sent) - 2 < stack[2].w
          /\ Top.ptr = ColumnAt(Top.str, stack[2].offset, Len(sent) - 2)
    /\ (Scrolled /\ Top.op = "oled_marquee") =>
          /\ Len(sent) = 2 + Top.w
          /\ sent[2] = 64
          /\ \A k \in 0 .. Top.w - 1 :
                sent[3 + k] = charset(ColumnAt(Top.str, Top.offset0, k))

\* a window of 20 columns on "AB" from offset 13 goes round the message
C13_Witness ==
    /\ Scrolled
    /\ Top.op = "oled_marquee"
    /\ Top.str = <<65, 66>>
    /\ Top.w = 20
    /\ Top.offset0 = 13
    /\ Len(sent) = 22
    /\ sent[3] = charset((66 - 32) * 8 + 5)
    /\ sent[6] = charset((65 - 32) * 8)
    /\ sent[22] = charset((65 - 32) * 8)

\* oled_bungee_marquee_aux is sending a glyph column; its repeat factor
InColumn == At("oled_bungee_marquee_aux", "slice")
Factor(f) == 1 + (f.scale \div 8)

\* a step of oled_bungee_marquee_aux that sends a byte and stays in the
\* function: it repeats the column, or it is done with it (ColumnDone) and
\* goes on to the next one
AuxStep == InColumn /\ Len(stack') = Len(stack)
ColumnDone == AuxStep /\ Head(stack').ptr # Top.ptr

\* C14: in one oled_bungee_marquee call with width w >= 2, the number of
\* times a glyph column is emitted does not decrease from one column to the
\* next while the remaining width exceeds the midpoint w div 2, does not
\* increase over the later columns, and is never below 1.
C14_FactorUpThenDown ==
    /\ [](InColumn => (Factor(Top) >= 1 /\ Top.j < Factor(Top)))
    /\ [][/\ AuxStep => Head(stack').w < Top.w
          /\ (AuxStep /\ ~ColumnDone) => Factor(Head(stack')) = Factor(Top)
          /\ ColumnDone =>
               /\ Top.j + 1 = Factor(Top)
               /\ Head(stack').w > Top.midpoint =>
                     Factor(Head(stack')) >= Factor(Top)
               /\ Head(stack').w <= Top.midpoint =>
                     Factor(Head(stack')) <= Factor(Top)]_vars

\* a column is being sent for the second time, in a window of 20 columns
C14_Witness ==
    /\ InColumn
    /\ Top.j = 1
    /\ Factor(Top) = 2
    /\ Top.midpoint = 10
    /\ Top.w = 11

\* C15 as stated: the repeat factor starts at 1, goes up by one for each
\* output column while the remaining width exceeds the midpoint, then down
\* by one per column, not below 1.
C15_FactorStepsPerColumn ==
    /\ [](InColumn => Factor(Top) >= 1)
    /\ [][AuxStep =>
            Factor(Head(stack')) =
               IF Head(stack').w > Top.midpoint THEN Factor(Top) + 1
               ELSE IF Factor(Top) = 1 THEN 1 ELSE Factor(Top) - 1]_vars

\* C15, amended: a scale counter starts at 0, goes up by one for each glyph
\* column done while the remaining width exceeds the midpoint, then down by
\* one per glyph column, not below 0; a glyph column is emitted
\* 1 + scale div 8 times, so the repeat factor starts at 1, changes by one
\* only every eighth glyph column, and is never below 1.
C15_ScaleStepsPerGlyphColumn ==
    /\ [](/\ InColumn => (Top.scale >= 0 /\ Top.j < 1 + (Top.scale \div 8))
          /\ (InColumn /\ Len(sent) = 2) => Top.scale = 0)
    /\ [][/\ (AuxStep /\ ~ColumnDone) => Head(stack').scale = Top.scale
          /\ ColumnDone =>
               /\ Top.j + 1 = 1 + (Top.scale \div 8)
               /\ Head(stack').scale =
                    IF Head(stack').w > Top.midpoint THEN Top.scale + 1
                    ELSE IF Top.scale = 0 THEN 0 ELSE Top.scale - 1]_vars

\* width 2: after the first column the remaining width is at the midpoint
\* and the counter is held at 0
C15_Witness ==
    /\ InColumn
    /\ Len(sent) = 3
    /\ Top.w = 1
    /\ Top.midpoint = 1
    /\ Top.scale = 0

\* the table entry for running column k of a call entered with phase ph, and
\* the glyph byte of running column k of message str
TableAt(ph, k) == cos_table_64_4[((ph + k) % 64) + 1]
GlyphByte(str, k) == charset(glyph_idx(str[(k \div 8) + 1]) * 8 + (k % 8))

\* C16: in one oled_wobble call, for every running column k of the message,
\* the upper-page pass and the lower-page pass use the same table entry
\* s = table[(phase + k) mod 64], phase being the value at the entry of the
\* call: the upper byte is the glyph byte shifted left by s, the lower byte
\* the glyph byte shifted right by 8 - s; the phase is advanced by exactly 1,
\* and only after both passes.
C16_WobblePasses ==
    /\ (Top.fn = "oled_wobble" /\ stack[2].mode = "api") =>
          stack[2].phase = stack[2].phase0
    /\ (At("oled_wobble", "col") /\ stack[2].mode = "api") =>
          BitAnd(Top.shift, 63) = (stack[2].phase0 + Len(sent) - 2) % 64
    /\ (At("oled_wobble", "char") /\ StrAt(Top.str, Top.sp) = 0
        /\ stack[2].mode = "api") =>
          /\ Len(sent) = 2 + 8 * Len(Top.str)
          /\ \A k \in 0 .. 8 * Len(Top.str) - 1 :
               LET s == TableAt(stack[2].phase0, k)
                   g == GlyphByte(Top.str, k)
               IN sent[3 + k] = IF Top.half = 1 THEN (g * (2 ^ s)) % 256
                                ELSE g \div (2 ^ (8 - s))
    /\ Returned("oled_wobble") => Top.phase = (Top.phase0 + 1) % 256

\* the lower pass of "AB" entered with phase 63 is complete: the table index
\* has gone round from 63 to 0
C16_Witness ==
    /\ At("oled_wobble", "char")
    /\ Top.half = 2
    /\ Top.str = <<65, 66>>
    /\ StrAt(Top.str, Top.sp) = 0
    /\ stack[2].phase0 = 63
    /\ Len(sent) = 18
    /\ sent[4] = charset(33 * 8 + 1) \div (2 ^ (8 - cos_table_64_4[1]))

\* C17: oled_clear() sets an addressing window over all 128 columns and all
\* active pages, then streams exactly 128 * 4 = 512 zero bytes after the 0x40
\* prefix; on a display that steps its pointer along the columns and then to
\* the next page of the window, every cell (page 0..3, column 0..127) is
\* written with 0 exactly once and no cell of another page is written.
C17_ClearCoversFrame ==
    (Returned("oled_clear") /\ Top.mode = "clear") =>
        LET d == peer.gram
        IN /\ d.amode = 0
           /\ d.colS = 0
           /\ d.colE = 127
           /\ d.pgS = 0
           /\ d.pgE >= 3
           /\ Len(sent) = 2 + 128 * 4
           /\ sent[2] = 64
           /\ \A i \in 3 .. Len(sent) : sent[i] = 0
           /\ Len(d.cells) = 128 * 4
           /\ {d.cells[i] : i \in 1 .. Len(d.cells)} =
                 {(pg * 128 + c) * 256 : pg \in 0 .. 3, c \in 0 .. 127}

\* the display was in page mode with its pointer at page 3, column 57
C17_Witness ==
    /\ Returned("oled_clear")
    /\ Top.mode = "clear"
    /\ Len(peer.gram.cells) = 512
    /\ peer.gram.cells[1] = 0
    /\ peer.gram.cells[512] = (3 * 128 + 127) * 256
    /\ peer.gram.page = 4
    /\ peer.gram.col = 0

\* C18: an operation other than oled_init() puts the same bytes on the bus in
\* the same transactions whatever the peer acknowledges: the stream is the
\* one of a run in which every byte is acknowledged.  oled_clear() has sent
\* its whole window sequence when it starts its data transaction and 512
\* zeros in two transactions when it returns; oled_set_page_mode() and
\* oled_contrast() have sent all their bytes in one transaction.
C18_AckIndependentStreams ==
    /\ At("oled_clear", "start") =>
          /\ sent = <<OLED_ADDR>> \o oled_full_screen_instrs
          /\ starts = 1
    /\ Returned("oled_clear") =>
          /\ Len(sent) = 2 + 128 * 4
          /\ starts = 2
    /\ Returned("oled_set_page_mode") =>
          /\ sent = <<OLED_ADDR>> \o
                    oled_set_page_mode_bytes(Top.call.page, Top.call.x)
          /\ starts = 1
    /\ Returned("oled_contrast") =>
          /\ sent = <<OLED_ADDR>> \o oled_contrast_bytes(Top.call.c)
          /\ starts = 1

\* C19: in every clock cycle the master pulls the clock low again only with
\* the clock line high, after the one observation of it high made in that
\* cycle; there is no timeout: against a peer that always lets go of the
\* clock again i2c_send_byte returns, and against a peer that from some time
\* on holds the clock low forever it never returns.
C19_ClockStretchNoTimeout ==
    /\ [][(bit.clocks' = bit.clocks + 1) =>
             /\ LineHigh(SCL)
             /\ Len(bit.highs) = bit.clocks + 1]_vars
    /\ ([]<>(~bit.scl)) => <>SendByteDone
    /\ (<>[]bit.scl) => []~SendByteDone

\* the master has released the clock in its fifth cycle and is held in the
\* busy-wait by a peer that stretches the clock
C19_Witness ==
    /\ bit.ip >= 1
    /\ bit.ip <= Len(BitOps)
    /\ BitOps[bit.ip].op = "wait"
    /\ ddr[SCL] = 0
    /\ bit.scl
    /\ bit.clocks = 4

\* the function at the top of the stack sends commands (not display data)
\* where it stands
SendsCommands ==
    \/ Top.fn \in {"oled_sequence", "oled_set_page_mode", "oled_contrast"}
    \/ At("oled_blit", "mode")

\* this step is an i2c_send_byte (no i2c_start: that one counts in starts)
SendsByte == Len(sent') = Len(sent) + 1 /\ starts' = starts

\* C20: every transaction of every operation is a start, then the address
\* byte 0x78 or'ed with the build's sub-address bit (write direction: bit 0
\* clear), then one framing byte, 0x00 where the operation sends commands
\* and 0x40 where it sends display data, then the payload: every payload
\* byte goes out after the address and the framing byte of its kind, so no
\* transaction carries commands and data together.
C20_TransactionFraming ==
    /\ [](/\ Len(sent) >= 1 =>
               /\ sent[1] = BitOr(120, IF build.alt THEN 2 ELSE 0)
               /\ sent[1] % 2 = 0
          /\ Len(sent) >= 2 => sent[2] \in {0, 64})
    /\ [][SendsByte =>
             /\ Len(sent) >= 1
             /\ sent'[2] = (IF SendsCommands THEN 0 ELSE 64)]_vars

\* display data of oled_blit going out behind 0x40 on the alternative
\* address
C20_Witness ==
    /\ At("oled_blit", "row")
    /\ build.alt
    /\ Len(sent) = 4
    /\ sent[1] = 122
    /\ sent[2] = 64

\* C21: every i2c_start puts a start condition on the wire: it is entered
\* with both lines released by the master, so that its pull-down of SDA
\* happens with the clock high and its pull-down of SCL comes afterwards;
\* this holds for every start of main(), the start of a repeated
\* oled_init() after one that was not acknowledged included.
C21_ValidStartCondition ==
    [][(starts' = starts + 1) =>
          /\ ddr = i2c_init
          /\ start_run[OLED_ADDR][ddr].conds = {"START"}]_vars

\* C22: every i2c_stop puts a stop condition on the wire: it pulls SDA low
\* while the master still holds the clock low, then releases the clock, and
\* releases SDA only while the clock line is high, also when the peer
\* stretches the clock at the time i2c_stop releases it.
C22_ValidStopCondition ==
    [][Top.fn = "i2c_stop" =>
          /\ (ddr[SDA] = 0 /\ ddr'[SDA] = 1) => ddr[SCL] = 1
          /\ (ddr[SCL] = 1 /\ ddr'[SCL] = 0) => ddr[SDA] = 1
          /\ (ddr[SDA] = 1 /\ ddr'[SDA] = 0) => LineHigh(SCL)]_vars

\* the pin instruction about to run is the SDA edge of a start condition
\* (the first instruction of i2c_start) or of a stop condition (the release
\* of SDA in i2c_stop)
ConditionEdge ==
    /\ bit.ip <= Len(BitOps)
    /\ \/ Top.fn = "i2c_start" /\ bit.ip = 1
       \/ Top.fn = "i2c_stop" /\ BitOps[bit.ip] = i2c_release(SDA)

\* C23: between the start condition and the stop condition the master
\* changes its drive of SDA only while it holds the clock low: the data bit
\* is set up before the clock is released and stays through the clock-high
\* phase, for every byte and whatever the peer does on the lines.
C23_DataChangesWhileClockLow ==
    [][(ddr'[SDA] # ddr[SDA] /\ ~ConditionEdge) => ddr[SCL] = 1]_vars

\* the master sets up a 0 after a 1 in the middle of the byte 0xA5, holding
\* the clock low
C23_Witness ==
    /\ Top.fn = "i2c_send_byte"
    /\ bit.c = 165
    /\ bit.clocks = 3
    /\ bit.ip <= Len(BitOps)
    /\ BitOps[bit.ip] = i2c_pulldown(SDA)
    /\ ddr[SDA] = 0
    /\ ddr[SCL] = 1

\* the acknowledge has been sampled in the primitive that is running
AckSampled == Top.fn \in {"i2c_start", "i2c_send_byte"} /\ bit.acked # -1

\* C24: i2c_start and i2c_send_byte sample the acknowledge with the master's
\* SDA released, and keep it released through the ninth clock cycle; the
\* value returned is "acked" exactly when the peer pulls SDA low at the
\* sample, whatever bit 0 of the byte was.
C24_AckIsPeerPull ==
    /\ [](AckSampled => ddr[SDA] = 0)
    /\ [][(bit.acked = -1 /\ bit.acked' # -1) =>
             /\ Len(bit.highs) = 8
             /\ ddr[SDA] = 0
             /\ bit.acked' = (IF bit.sda THEN 1 ELSE 0)]_vars

\* a byte with bit 0 clear has gone out, the peer does not pull SDA at the
\* sample, and the byte is done: not acknowledged
C24_Witness ==
    /\ Top.fn = "i2c_send_byte"
    /\ bit.c = 64
    /\ bit.acked = 0
    /\ bit.clocks = 9
    /\ bit.ip = Len(BitOps) + 1

\* the frame of the renderer that is streaming a row of display data, the
\* page it set for the row, and the place where it starts its data
\* transaction after oled_set_page_mode has returned
RowFrame == IF Top.fn = "oled_bungee_marquee_aux" THEN stack[2] ELSE Top
RowPage ==
    CASE RowFrame.fn = "oled_blit" -> RowFrame.page
      [] RowFrame.fn = "oled_wobble" ->
           IF RowFrame.half = 1 THEN RowFrame.y ELSE RowFrame.y + 1
      [] OTHER -> RowFrame.y
AtDataStart ==
    \/ At("oled_blit", "dstart")
    \/ /\ Top.fn \in {"oled_write", "oled_marquee", "oled_bungee_marquee",
                      "oled_wobble"}
       /\ Top.pc = "start"

\* this step sends a byte of display data of a renderer (not of oled_clear)
StreamsData ==
    /\ SendsByte
    /\ ~SendsCommands
    /\ Top.fn # "oled_clear"
    /\ Len(sent) >= 2

\* C25: every data transaction of oled_blit, oled_write, oled_marquee,
\* oled_bungee_marquee and oled_wobble comes right after an
\* oled_set_page_mode transaction for the page and column of the row, so
\* the display, which was left in horizontal mode (0x00) by oled_clear(), is
\* in page addressing mode (0x02) with its pointer on that row whenever one
\* of them streams a data byte.
C25_PageModeBeforeData ==
    /\ [](AtDataStart =>
            sent = <<OLED_ADDR>> \o oled_set_page_mode_bytes(RowPage, Top.x))
    /\ [][StreamsData =>
             /\ peer.gram.amode = 2
             /\ peer.gram.ctl = "data"
             /\ peer.gram.page = RowPage
             /\ peer.gram.col = (RowFrame.x + Len(sent) - 2) % 128]_vars

\* oled_write streams the second glyph of a string at column 100 of page 3
C25_Witness ==
    /\ At("oled_write", "col")
    /\ Top.x = 100
    /\ Top.y = 3
    /\ Len(sent) = 2 + 9
    /\ peer.gram.amode = 2
    /\ peer.gram.page = 3
    /\ peer.gram.col = 109
    /\ peer.gram.pgE = 7

\* C26: in main(), every data byte of the two oled_blit calls and of the
\* oled_marquee, oled_bungee_marquee and oled_wobble calls of every loop
\* iteration goes to a page in 0..3 and to a column below 128 counted from
\* the start column of its row: the start column plus the bytes streamed in
\* the row never exceeds 128, so the column pointer does not wrap inside a
\* row.
C26_DrawsInsideFrame ==
    [][StreamsData =>
          /\ RowPage \in 0 .. 3
          /\ RowFrame.x \in 0 .. 127
          /\ RowFrame.x + (Len(sent) - 2) < 128
          /\ RowFrame.x + (Len(sent') - 2) <= 128]_vars

\* the bungee marquee of the second loop iteration is about to write its
\* last byte, at column 127 of page 3
C26_Witness ==
    /\ Top.fn = "oled_bungee_marquee_aux"
    /\ Top.pc = "slice"
    /\ stack[Len(stack)].fn = "main"
    /\ stack[Len(stack)].frames = 1
    /\ RowPage = 3
    /\ RowFrame.x = 0
    /\ Len(sent) = 2 + 127

\* C27: for every width w from 1, every non-empty message and every offset
\* inside it, one oled_bungee_marquee call returns, and its data transaction
\* carries exactly w bytes between the 0x40 prefix and the stop, wherever in
\* the repeats of a column the window ends.
C27_BungeeStreamsWidth ==
    /\ <>At("caller", "returned")
    /\ [](Returned("oled_bungee_marquee") =>
             /\ Len(sent) = 2 + Top.call.w
             /\ sent[2] = OLED_DATA
             /\ starts = 2
             /\ ddr = i2c_init)
    /\ [][(Top.fn = "oled_bungee_marquee_aux"
           /\ Head(stack').fn = "oled_bungee_marquee") =>
             Len(sent') = 2 + Head(stack').w]_vars

\* a call of width 24, which went through columns sent twice, has returned
\* from an offset inside the second character of its message
C27_Witness ==
    /\ Returned("oled_bungee_marquee")
    /\ Top.call.w = 24
    /\ Top.offset0 = 13
    /\ Len(sent) = 2 + 24
    /\ \E k \in 3 .. 24 : sent[k] = sent[k + 1]

\* C28: for every glyph column byte g and every shift s of the table (all
\* of 0..8 occur), the byte of the upper page, (g << s) cut to 8 bits, and
\* the byte of the lower page, g >> (8 - s), make lower * 256 + upper =
\* g * 2^s: bit b of g is bit b + s of the 16 pixels of the two pages, once,
\* and no other pixel is set, also for g with bit 7 set, s = 0 and s = 8.
C28_WobbleSplitsColumn ==
    At("wobble_column", "done") =>
        LET s == cos_table_64_4[Top.shift + 1]
            pixels == Top.lower * 256 + Top.upper
        IN /\ s \in 0 .. 8
           /\ Top.upper \in 0 .. 255
           /\ Top.lower \in 0 .. 255
           /\ pixels = Top.g * Pow2(s)
           /\ \A b \in 0 .. 15 :
                BitOf(pixels, b) =
                   (IF b >= s /\ b - s <= 7 THEN BitOf(Top.g, b - s) ELSE 0)

\* the column 0x81 moved down by 3: bit 7 has gone over to the lower page
C28_Witness ==
    /\ At("wobble_column", "done")
    /\ Top.g = 129
    /\ cos_table_64_4[Top.shift + 1] = 3
    /\ Top.upper = 8
    /\ Top.lower = 4

\* the caller of SpecWobble and the number of the running call, from 0
Wobbler == stack[Len(stack)]
CallNo == Wobbler.calls - 1

\* C29: the phase is an 8-bit counter that each oled_wobble call advances
\* by 1, and the bytes of a call depend on the phase only through phase mod
\* 64: column k of the n-th call after phase p uses table entry
\* (p + n + k) mod 64, so the output repeats every 64 calls, and neither the
\* wrap of the phase from 255 to 0 nor that of the running column counter
\* inside a call breaks the sequence of table entries.
C29_PhaseModulo64 ==
    /\ Wobbler.phase \in 0 .. 255
    /\ At("caller", "idle") =>
          Top.phase = (Top.start + Top.calls) % 256
    /\ Top.fn = "oled_wobble" =>
          /\ Wobbler.phase = (Wobbler.start + CallNo) % 256
          /\ Top.shift \in 0 .. 255
    /\ (At("oled_wobble", "char") /\ StrAt(Top.str, Top.sp) = 0) =>
          /\ Len(sent) = 2 + 8 * Len(Top.str)
          /\ \A k \in 0 .. 8 * Len(Top.str) - 1 :
               LET s == cos_table_64_4[
                           (((Wobbler.start % 64) + (CallNo % 64) + k) % 64) + 1]
                   g == GlyphByte(Top.str, k)
               IN sent[3 + k] = IF Top.half = 1 THEN (g * Pow2(s)) % 256
                                ELSE g \div Pow2(8 - s)

\* the fifth call after phase 252 has sent its lower page: the phase went
\* through 255 to 0, and the table entries of its 16 columns are those of
\* phase 0, from 8 down to 4
C29_Witness ==
    /\ At("oled_wobble", "char")
    /\ StrAt(Top.str, Top.sp) = 0
    /\ Top.half = 2
    /\ Len(Top.str) = 2
    /\ Wobbler.start = 252
    /\ Wobbler.calls = 5
    /\ Wobbler.phase = 0
    /\ sent[3] = GlyphByte(Top.str, 0)
    /\ sent[18] = GlyphByte(Top.str, 15) \div 16

====
